---- MODULE Spec2Model ----
(***************************************************************************)
(* Kombiner: per-scheduler priority queues of PlacementRequests, the       *)
(* QueueIterator that drains them through a Reader, and the                *)
(* PlacementRequestController that admits (enqueue) and dispatches         *)
(* (ScheduleOne) the requests.                                             *)
(***************************************************************************)
EXTENDS Integers, Sequences, FiniteSets, TLC

(***************************************************************************)
(* Bounds of the model.                                                    *)
(***************************************************************************)
\* pushes each bounded producer makes (the "for range 1000" of the test)
MaxPush == 1
\* length up to which the endless producers fill a queue
MaxQueueLen == 2
\* add events the informer delivers in one run
MaxAdds == 2
\* longest status.bindings list handed to AssessResult
MaxBindings == 4
\* largest queue weight and largest number of queues of a drawn configuration
MaxWeight == 4
MaxQueues == 3
\* requests the single-queue harness keeps in its queue
MaxHeap == 4
BigRequest == 9
MaxHandlers == 3

(***************************************************************************)
(* Values of the API types.                                                *)
(***************************************************************************)
\* the nil *PlacementRequest (requests are numbered from 1)
Nil == 0

PlacementRequestResultUnknown == ""
PlacementRequestResultSuccess == "Success"
PlacementRequestResultFailure == "Failure"
PlacementRequestResultPartialSuccess == "PartialSuccess"
PlacementRequestResultRejected == "Rejected"

Results ==
    { PlacementRequestResultUnknown, PlacementRequestResultSuccess,
      PlacementRequestResultFailure, PlacementRequestResultPartialSuccess,
      PlacementRequestResultRejected }

PlacementRequestPolicyLenient == "Lenient"
PlacementRequestPolicyAllOrNothing == "AllOrNothing"

Binding(pod, uid, node) == [PodName |-> pod, PodUID |-> uid, NodeName |-> node]

(***************************************************************************)
(* The controller configuration: one queue per scheduler.  Plugins is the  *)
(* number of validation plugins enabled for the scheduler.                 *)
(***************************************************************************)
Configs ==
    << [SchedulerName |-> "s1", Weight |-> 1, MaxSize |-> 2, Plugins |-> 1],
       [SchedulerName |-> "s2", Weight |-> 2, MaxSize |-> 1, Plugins |-> 0] >>

QueueIds == 1..Len(Configs)

(***************************************************************************)
(* The PlacementRequests the environment may create: metadata and spec.    *)
(***************************************************************************)
PRSpec ==
    << [SchedulerName |-> "s1", Policy |-> PlacementRequestPolicyLenient,
        CreationTimestamp |-> 3,
        Bindings |-> << Binding("pa", "ua", "n1") >>],
       [SchedulerName |-> "s1", Policy |-> PlacementRequestPolicyLenient,
        CreationTimestamp |-> 1,
        Bindings |-> << Binding("pa", "ua", "n1"), Binding("pb", "ub", "n2") >>],
       [SchedulerName |-> "s2", Policy |-> PlacementRequestPolicyAllOrNothing,
        CreationTimestamp |-> 2,
        Bindings |-> << Binding("pb", "ub", "n1") >>],
       [SchedulerName |-> "s2", Policy |-> PlacementRequestPolicyLenient,
        CreationTimestamp |-> 2,
        Bindings |-> << Binding("pa", "ua", "n2"), Binding("pb", "ub", "n1") >>],
       [SchedulerName |-> "sx", Policy |-> PlacementRequestPolicyLenient,
        CreationTimestamp |-> 4,
        Bindings |-> << Binding("pa", "ua", "n1") >>],
       [SchedulerName |-> "", Policy |-> PlacementRequestPolicyLenient,
        CreationTimestamp |-> 4,
        Bindings |-> << Binding("pa", "ua", "n1") >>],
       [SchedulerName |-> "s1", Policy |-> PlacementRequestPolicyLenient,
        CreationTimestamp |-> 5,
        Bindings |-> << >>],
       [SchedulerName |-> "s1", Policy |-> PlacementRequestPolicyLenient,
        CreationTimestamp |-> 2,
        Bindings |-> << Binding("pa", "ua", "n1"), Binding("pa", "ua", "n2") >>] >>

PRs == 1..Len(PRSpec)

VARIABLES
    queues,        \* queue id -> PriorityQueue.items (a heap of requests)
    pushHandlers,  \* queue id -> PlacementRequestQueue.pushHandlers
    resume,        \* number of signals buffered in QueueIterator.resume
    cancelled,     \* ctx.Done() is closed
    itpc,          \* position of QueueIterator.Run
    itp,           \* the request Run is sending on Next
    reader,        \* the Reader built by the current outer iteration
    nextClosed,    \* QueueIterator.Next is closed
    todo,          \* bounded producer -> pushes it still makes
    lastRecv,      \* the request the consumer received last
    pending,       \* request -> pushes of it neither received on Next nor dropped
    dropped,       \* the send select has dropped a request on ctx.Done()
    lastOp,        \* last operation made on the single queue
    lastPopped,    \* what the last Pop returned
    asBindings,    \* the results in the status.bindings given to AssessResult
    asResult,      \* what AssessResult returned
    fnIn,          \* the input drawn for the function under study
    fnOut,         \* what the function returned for it so far
    store,         \* request -> its state and status in the API server
    obj,           \* request -> the object the informer handed to enqueue
    nadds,         \* add events delivered so far
    ctlpc,         \* position of PlacementRequestController.Run
    ctlpr,         \* the request Run received from Next
    schedCalls,    \* request -> ScheduleOne invocations
    schedErr,      \* the error the last ScheduleOne returned, "" for nil
    bindCalls,     \* request -> Bind requests issued per spec binding
    updCalls       \* request -> UpdateStatus requests issued

\* the single-queue harness, the AssessResult harness and the controller
pqvars == << lastOp, lastPopped >>
fnvars == << fnIn, fnOut >>
asvars == << asBindings, asResult, fnvars >>
ctlvars ==
    << store, obj, nadds, ctlpc, ctlpr, schedCalls, schedErr, bindCalls, updCalls >>

vars ==
    << queues, pushHandlers, resume, cancelled, itpc, itp, reader,
       nextClosed, todo, lastRecv, pending, dropped, pqvars, asvars, ctlvars >>

(***************************************************************************)
(* PriorityQueue (a heap.Interface) and container/heap on top of it.       *)
(* Indices are those of the Go slice: item i is s[i + 1].                  *)
(***************************************************************************)
Priority(pr) == PRSpec[pr].CreationTimestamp

\* fault: a comparison that puts the newest request first
LessNewestFirst(s, i, j) == Priority(s[i + 1]) > Priority(s[j + 1])

Less(s, i, j) == Priority(s[i + 1]) < Priority(s[j + 1])

Swap(s, i, j) == [s EXCEPT ![i + 1] = s[j + 1], ![j + 1] = s[i + 1]]

\* Go's integer division truncates toward zero
GoDiv(a, b) == IF a >= 0 THEN a \div b ELSE 0 - ((0 - a) \div b)

RECURSIVE heapUp(_, _)
heapUp(s, j) ==
    LET i == GoDiv(j - 1, 2) IN
    IF i = j \/ ~Less(s, j, i) THEN s ELSE heapUp(Swap(s, i, j), i)

RECURSIVE heapDown(_, _, _)
heapDown(s, i, n) ==
    LET j1 == 2 * i + 1 IN
    IF j1 >= n \/ j1 < 0 THEN s
    ELSE LET j == IF j1 + 1 < n /\ Less(s, j1 + 1, j1) THEN j1 + 1 ELSE j1 IN
         IF ~Less(s, j, i) THEN s ELSE heapDown(Swap(s, i, j), j, n)

\* heap.Push: PriorityQueue.Push appends, then the item is sifted up
heapPush(s, pr) == heapUp(Append(s, pr), Len(s))

\* heap.Pop: swap root and last, sift down, PriorityQueue.Pop takes the last
heapPop(s) ==
    LET n == Len(s) - 1
        t == heapDown(Swap(s, 0, n), 0, n)
    IN  [item |-> t[n + 1], items |-> SubSeq(t, 1, n)]

(***************************************************************************)
(* PlacementRequestQueue.                                                  *)
(***************************************************************************)
\* QueueIterator.Resume: a non-blocking send on the buffered resume channel
ResumeCap == 2

\* fault: a Resume that sends nothing
ResumeNoSignal(n) == n

\* fault: a resume channel without a capacity
ResumeUnbounded(n) == n + 1

Resume(n) == IF n < ResumeCap THEN n + 1 ELSE n

\* fault: a Push that calls no handler
RunHandlersNone(hs, n) == n

RECURSIVE RunHandlers(_, _)
RunHandlers(hs, n) ==
    IF hs = << >> THEN n
    ELSE RunHandlers(Tail(hs), IF Head(hs) = "Resume" THEN Resume(n) ELSE n)

\* a select statement completes when one of its communications is ready or
\* when it has a default case
SelectReady(ready, hasDefault) == ready \/ hasDefault

\* fault: Resume sends without a default case
ResumeReturnsNoDefault(n) == SelectReady(n < ResumeCap, FALSE)

\* Resume returns: the send is ready while the buffer has room, and the
\* select has a default case
ResumeReturns(n) == SelectReady(n < ResumeCap, TRUE)

\* the handler loop of Push runs to its end: every handler returns
RECURSIVE HandlersReturn(_, _)
HandlersReturn(hs, n) ==
    IF hs = << >> THEN TRUE
    ELSE IF Head(hs) = "Resume"
         THEN ResumeReturns(n) /\ HandlersReturn(Tail(hs), Resume(n))
         ELSE HandlersReturn(Tail(hs), n)

\* Push: heap insert, then every push handler, under the queue's mutex
Push(q, pr) ==
    /\ HandlersReturn(pushHandlers[q], resume)
    /\ queues' = [queues EXCEPT ![q] = heapPush(@, pr)]
    /\ resume' = RunHandlers(pushHandlers[q], resume)

\* Pop: nil when the queue is empty, else the root of the heap
PopResult(s) == IF Len(s) = 0 THEN Nil ELSE heapPop(s).item

\* fault: a Pop that leaves the root in the heap
PopRestKeep(s) == s

PopRest(s) == IF Len(s) = 0 THEN s ELSE heapPop(s).items

QLen(q) == Len(queues[q])

(***************************************************************************)
(* Readers.  A reader holds the config indices still candidate in the      *)
(* current UniformReader.Read call (cands), the RoundRobinReader counters  *)
(* (BindingsRead) and the position of RoundRobinReader.Read (phase, scan). *)
(***************************************************************************)
MinimumBindings == 10

AllConfigs == [i \in QueueIds |-> i]

RECURSIVE TotalWeight(_)
TotalWeight(cands) ==
    IF cands = << >> THEN 0
    ELSE Configs[Head(cands)].Weight + TotalWeight(Tail(cands))

\* the weights of the configs a Read call still has
Weights(cands) == [i \in 1..Len(cands) |-> Configs[cands[i]].Weight]

\* fault: a walk that stops only when the sum exceeds the drawn number
RECURSIVE WalkWeightsStrict(_, _, _, _)
WalkWeightsStrict(ws, selected, i, sum) ==
    IF i > Len(ws) THEN 0
    ELSE IF selected < sum + ws[i] THEN i
         ELSE WalkWeightsStrict(ws, selected, i + 1, sum + ws[i])

\* UniformReader.next: walk the prefix sums of the weights up to the drawn
\* number; 0 stands for the panic after the walk
RECURSIVE WalkWeights(_, _, _, _)
WalkWeights(ws, selected, i, sum) ==
    IF i > Len(ws) THEN 0
    ELSE IF selected <= sum + ws[i] THEN i
         ELSE WalkWeights(ws, selected, i + 1, sum + ws[i])

UniformWalk(cands, selected, i, sum) ==
    WalkWeights(Weights(cands), selected, i, sum)

UniformNext(cands, selected) == UniformWalk(cands, selected, 1, 0)

\* fault: a Read that leaves a queue found empty among the candidates
SlicesDeleteNone(s, i) == s

\* slices.Delete(configs, qidx, qidx+1)
SlicesDelete(s, i) == SubSeq(s, 1, i - 1) \o SubSeq(s, i + 1, Len(s))

RECURSIVE MinWeight(_)
MinWeight(cfgs) ==
    IF Len(cfgs) = 1 THEN cfgs[1].Weight
    ELSE LET m == MinWeight(Tail(cfgs)) IN
         IF m < cfgs[1].Weight THEN m ELSE cfgs[1].Weight

\* fault: a quota that is rounded down
QuotaFloor(w, lw) == (w * MinimumBindings) \div lw

\* int(math.Ceil(float64(w) / float64(lw) * float64(MinimumBindings))): for
\* weights of this size the float64 product rounds to the exact quotient
\* whenever that is a whole number, so Ceil is the ceiling of the fraction
Quota(w, lw) == (w * MinimumBindings + lw - 1) \div lw

MaximumBindings(i) == Quota(Configs[i].Weight, MinWeight(Configs))

\* RoundRobinReader.next: first queue below its quota, 0 when there is none
RoundRobinNext(read) ==
    IF \E i \in QueueIds : read[i] < MaximumBindings(i)
    THEN CHOOSE i \in QueueIds :
            /\ read[i] < MaximumBindings(i)
            /\ \A j \in QueueIds : j < i => ~(read[j] < MaximumBindings(j))
    ELSE 0

\* RoundRobinReader.reset
RoundRobinReset(read) == [i \in QueueIds |-> 0]

\* readerFactory(configs): NewUniformReader or NewRoundRobinReader
NewReader(kind) ==
    [kind |-> kind, cands |-> AllConfigs,
     BindingsRead |-> [i \in QueueIds |-> 0], phase |-> "empty", scan |-> 1]

\* the reader as it stands when a Read call returns, ready for the next call
ReadReturns(r) == [r EXCEPT !.cands = AllConfigs, !.phase = "empty", !.scan = 1]

(***************************************************************************)
(* QueueIterator.Run.                                                      *)
(***************************************************************************)
itvars == << itpc, itp, reader, nextClosed >>

\* fault: a Run that builds its reader once, before the loop
RunCheckKeepsReader ==
    /\ itpc = "check"
    /\ IF cancelled
       THEN /\ itpc' = "done"
            /\ nextClosed' = TRUE
       ELSE /\ itpc' = "read"
            /\ UNCHANGED nextClosed
    /\ UNCHANGED << queues, pushHandlers, resume, cancelled, itp, reader, todo,
                    lastRecv, pending, dropped, pqvars, asvars, ctlvars >>

\* top of the loop: leave (closing Next) when the context is done, else
\* build a fresh reader from the configs
RunCheck ==
    /\ itpc = "check"
    /\ IF cancelled
       THEN /\ itpc' = "done"
            /\ nextClosed' = TRUE
            /\ UNCHANGED reader
       ELSE /\ itpc' = "read"
            /\ reader' = NewReader(reader.kind)
            /\ UNCHANGED nextClosed
    /\ UNCHANGED << queues, pushHandlers, resume, cancelled, itp, todo,
                    lastRecv, pending, dropped, pqvars, asvars, ctlvars >>

\* UniformReader.Read: one turn of its loop (select a queue, Pop it)
UniformRead ==
    /\ itpc = "read"
    /\ reader.kind = "Uniform"
    /\ \E selected \in 1..TotalWeight(reader.cands) :
         LET qidx == UniformNext(reader.cands, selected)
             q == reader.cands[qidx]
             pr == PopResult(queues[q])
             rest == SlicesDelete(reader.cands, qidx)
         IN  /\ queues' = [queues EXCEPT ![q] = PopRest(@)]
             /\ IF pr # Nil
                THEN /\ itp' = pr
                     /\ itpc' = "send"
                     /\ reader' = ReadReturns(reader)
                ELSE IF rest = << >>
                THEN /\ itp' = Nil
                     /\ itpc' = "wait"
                     /\ reader' = ReadReturns(reader)
                ELSE /\ reader' = [reader EXCEPT !.cands = rest]
                     /\ UNCHANGED << itp, itpc >>
    /\ UNCHANGED << pushHandlers, resume, cancelled, nextClosed, todo,
                    lastRecv, pending, dropped, pqvars, asvars, ctlvars >>

\* RoundRobinReader.empty: one Len() of its scan over the queues
RoundRobinEmpty ==
    /\ itpc = "read"
    /\ reader.kind = "RoundRobin"
    /\ reader.phase = "empty"
    /\ IF QLen(reader.scan) > 0
       THEN /\ reader' = [reader EXCEPT !.phase = "pop"]
            /\ UNCHANGED << itp, itpc >>
       ELSE IF reader.scan = Len(Configs)
       THEN /\ itp' = Nil
            /\ itpc' = "wait"
            /\ reader' = ReadReturns(reader)
       ELSE /\ reader' = [reader EXCEPT !.scan = @ + 1]
            /\ UNCHANGED << itp, itpc >>
    /\ UNCHANGED << queues, pushHandlers, resume, cancelled, nextClosed, todo,
                    lastRecv, pending, dropped, pqvars, asvars, ctlvars >>

\* RoundRobinReader.Read after empty(): next (with a reset when every quota
\* is used up), Pop, and the counter update; a nil Pop recurses into Read
RoundRobinPop ==
    /\ itpc = "read"
    /\ reader.kind = "RoundRobin"
    /\ reader.phase = "pop"
    /\ LET first == RoundRobinNext(reader.BindingsRead)
           read == IF first = 0 THEN RoundRobinReset(reader.BindingsRead)
                   ELSE reader.BindingsRead
           index == RoundRobinNext(read)
       IN  IF index = 0
           THEN /\ itpc' = "panic"
                /\ UNCHANGED << queues, itp, reader >>
           ELSE LET pr == PopResult(queues[index]) IN
                /\ queues' = [queues EXCEPT ![index] = PopRest(@)]
                /\ IF pr # Nil
                   THEN /\ itp' = pr
                        /\ itpc' = "send"
                        /\ reader' = ReadReturns(
                              [reader EXCEPT !.BindingsRead =
                                  [read EXCEPT ![index] =
                                      @ + Len(PRSpec[pr].Bindings)]])
                   ELSE /\ reader' = ReadReturns(
                              [reader EXCEPT !.BindingsRead =
                                  [read EXCEPT ![index] = MaximumBindings(index)]])
                        /\ UNCHANGED << itp, itpc >>
    /\ UNCHANGED << pushHandlers, resume, cancelled, nextClosed, todo,
                    lastRecv, pending, dropped, pqvars, asvars, ctlvars >>

\* the send select, case <-ctx.Done(): the request is dropped and the read
\* loop goes on with the next Read
SendCtxDone ==
    /\ itpc = "send"
    /\ cancelled
    /\ pending' = [pending EXCEPT ![itp] = @ - 1]
    /\ dropped' = TRUE
    /\ itp' = Nil
    /\ itpc' = "read"
    /\ UNCHANGED << queues, pushHandlers, resume, cancelled, reader,
                    nextClosed, todo, lastRecv, pqvars, asvars, ctlvars >>

\* the wait select, case <-q.resume
WaitResume ==
    /\ itpc = "wait"
    /\ resume > 0
    /\ resume' = resume - 1
    /\ itpc' = "check"
    /\ UNCHANGED << queues, pushHandlers, cancelled, itp, reader, nextClosed,
                    todo, lastRecv, pending, dropped, pqvars, asvars, ctlvars >>

\* the wait select, case <-ctx.Done()
WaitCtxDone ==
    /\ itpc = "wait"
    /\ cancelled
    /\ itpc' = "check"
    /\ UNCHANGED << queues, pushHandlers, resume, cancelled, itp, reader,
                    nextClosed, todo, lastRecv, pending, dropped, pqvars, asvars, ctlvars >>

\* the steps Run makes while its context is live
RunLive ==
    \/ RunCheck
    \/ UniformRead
    \/ RoundRobinEmpty
    \/ RoundRobinPop
    \/ WaitResume

\* every step Run makes on its own
RunStep ==
    \/ RunLive
    \/ SendCtxDone
    \/ WaitCtxDone

(***************************************************************************)
(* The iterator with the producers and the consumer of its tests.          *)
(***************************************************************************)
Producers == 1..2

\* producer idx pushes onto configs[idx % len(configs)]
ProducerQueue(w) == ((w - 1) % Len(Configs)) + 1

\* requests carry the scheduler name of the queue they are pushed onto
QueuePRs(q) == { pr \in PRs : PRSpec[pr].SchedulerName = Configs[q].SchedulerName }

\* a producer of TestQueueIteratorMultipleConcurrent: a bounded number of pushes
ProducerPush ==
    \E w \in Producers : \E pr \in QueuePRs(ProducerQueue(w)) :
        /\ todo[w] > 0
        /\ todo' = [todo EXCEPT ![w] = @ - 1]
        /\ Push(ProducerQueue(w), pr)
        /\ pending' = [pending EXCEPT ![pr] = @ + 1]
        /\ UNCHANGED << pushHandlers, cancelled, itpc, itp, reader, nextClosed,
                        lastRecv, dropped, pqvars, asvars, ctlvars >>

\* a producer of TestQueueContextCancellation: pushes for ever
EndlessPushOf(q, pr) ==
    /\ QLen(q) < MaxQueueLen
    /\ Push(q, pr)
    /\ pending' = [pending EXCEPT ![pr] = @ + 1]
    /\ UNCHANGED << pushHandlers, cancelled, itpc, itp, reader, nextClosed,
                    todo, lastRecv, dropped, pqvars, asvars, ctlvars >>

EndlessPush == \E q \in QueueIds : \E pr \in QueuePRs(q) : EndlessPushOf(q, pr)

\* the send select, case q.Next <- p, with the consumer's receive
ConsumerRecv ==
    /\ itpc = "send"
    /\ lastRecv' = itp
    /\ pending' = [pending EXCEPT ![itp] = @ - 1]
    /\ itp' = Nil
    /\ itpc' = "read"
    /\ UNCHANGED << queues, pushHandlers, resume, cancelled, reader,
                    nextClosed, todo, dropped, pqvars, asvars, ctlvars >>

\* cancel()
Cancel ==
    /\ ~cancelled
    /\ cancelled' = TRUE
    /\ UNCHANGED << queues, pushHandlers, resume, itpc, itp, reader,
                    nextClosed, todo, lastRecv, pending, dropped, pqvars, asvars, ctlvars >>

InitQueues ==
    /\ queues = [q \in QueueIds |-> << >>]
    /\ pushHandlers = [q \in QueueIds |-> << "Resume" >>]
    /\ resume = 0

InitIterator(kinds) ==
    /\ cancelled = FALSE
    /\ itpc = "check"
    /\ itp = Nil
    /\ reader \in { NewReader(k) : k \in kinds }
    /\ nextClosed = FALSE

InitQueueHarness ==
    /\ lastOp = "none"
    /\ lastPopped = Nil

\* AssessResult has not been called
Unassessed == [Result |-> "unassessed", Message |-> ""]

\* no function is under study
InitFnHarness ==
    /\ fnIn = << >>
    /\ fnOut = << >>

InitAssessHarness ==
    /\ asBindings = << >>
    /\ asResult = Unassessed
    /\ InitFnHarness

EmptyStatus ==
    [Result |-> PlacementRequestResultUnknown, Reason |-> "", Message |-> "",
     Bindings |-> << >>]

\* no add event has handed the request to the controller yet
NoObj == [exists |-> FALSE, DeletionTimestamp |-> FALSE, Status |-> EmptyStatus]

InitController ==
    /\ store = [pr \in PRs |-> [state |-> "live", Status |-> EmptyStatus]]
    /\ obj = [pr \in PRs |-> NoObj]
    /\ nadds = 0
    /\ ctlpc = "recv"
    /\ ctlpr = Nil
    /\ schedCalls = [pr \in PRs |-> 0]
    /\ schedErr = ""
    /\ bindCalls = [pr \in PRs |-> [i \in 1..Len(PRSpec[pr].Bindings) |-> 0]]
    /\ updCalls = [pr \in PRs |-> 0]

InitHarness ==
    /\ todo = [w \in Producers |-> MaxPush]
    /\ lastRecv = Nil
    /\ pending = [pr \in PRs |-> 0]
    /\ dropped = FALSE

InitIter ==
    /\ InitQueues
    /\ InitIterator({"Uniform", "RoundRobin"})
    /\ InitHarness
    /\ InitQueueHarness
    /\ InitAssessHarness
    /\ InitController

NextIter == RunStep \/ ProducerPush \/ ConsumerRecv \/ Cancel

SpecIter == InitIter /\ [][NextIter]_vars

\* the iterator with the endless producers of the cancellation test
NextCancel == RunStep \/ EndlessPush \/ ConsumerRecv \/ Cancel

SpecCancel == InitIter /\ [][NextCancel]_vars

\* the Go scheduler keeps a runnable goroutine running: Run takes its next
\* step and a ready receiver takes what is sent to it
FairIter == SpecIter /\ WF_vars(RunStep) /\ WF_vars(ConsumerRecv)

FairCancel == SpecCancel /\ WF_vars(RunStep) /\ WF_vars(ConsumerRecv)

(***************************************************************************)
(* Properties of the iterator.                                             *)
(***************************************************************************)
RECURSIVE CountIn(_, _)
CountIn(s, pr) ==
    IF s = << >> THEN 0
    ELSE (IF Head(s) = pr THEN 1 ELSE 0) + CountIn(Tail(s), pr)

RECURSIVE CountQueued(_, _)
CountQueued(q, pr) ==
    IF q = 0 THEN 0 ELSE CountIn(queues[q], pr) + CountQueued(q - 1, pr)

InFlight(pr) == IF itp = pr THEN 1 ELSE 0

\* every push that was neither received nor dropped is in a queue or is
\* the request being sent
Conserved ==
    \A pr \in PRs : pending[pr] = CountQueued(Len(Configs), pr) + InFlight(pr)

\* C5: while the context is not cancelled no pushed request is lost or
\* duplicated (each is in a queue, being sent, or was received once, and
\* none was dropped), each pushed request is eventually received on Next,
\* and nothing is left to deliver once all were received.
C5_DeliveredExactlyOnce ==
    /\ [](~cancelled => Conserved /\ ~dropped)
    /\ (\E pr \in PRs : pending[pr] > 0)
          ~> ((\A pr \in PRs : pending[pr] = 0) \/ cancelled)

C5_Witness ==
    /\ ~cancelled
    /\ \A w \in Producers : todo[w] = 0
    /\ \A pr \in PRs : pending[pr] = 0
    /\ lastRecv # Nil
    /\ itpc = "wait"

\* C6: when Run is blocked on the resume channel and requests sit in the
\* queues, every pushed request is eventually received on Next unless the
\* context is cancelled.
C6_PushWakesIterator ==
    (itpc = "wait" /\ \E q \in QueueIds : QLen(q) > 0)
        ~> ((\A pr \in PRs : pending[pr] = 0) \/ cancelled)

C6_Witness ==
    /\ itpc = "wait"
    /\ ~cancelled
    /\ resume > 0
    /\ \E q \in QueueIds : QLen(q) > 0

\* C7: after cancellation Run eventually closes Next and returns, also
\* while producers keep pushing.
C7_CancelEndsRun == cancelled ~> (itpc = "done" /\ nextClosed)

(***************************************************************************)
(* A single PlacementRequestQueue, pushed and popped as in                 *)
(* TestPlacementRequestQueue.                                              *)
(***************************************************************************)
QueuePush ==
    \E pr \in PRs :
        /\ QLen(1) < MaxHeap
        /\ Push(1, pr)
        /\ lastOp' = "push"
        /\ UNCHANGED << pushHandlers, cancelled, itpc, itp, reader, nextClosed,
                        todo, lastRecv, pending, dropped, lastPopped, asvars,
                        ctlvars >>

QueuePop ==
    /\ lastPopped' = PopResult(queues[1])
    /\ queues' = [queues EXCEPT ![1] = PopRest(@)]
    /\ lastOp' = "pop"
    /\ UNCHANGED << pushHandlers, resume, cancelled, itpc, itp, reader,
                    nextClosed, todo, lastRecv, pending, dropped, asvars,
                    ctlvars >>

InitQueue ==
    /\ InitQueues
    /\ InitIterator({"Uniform"})
    /\ InitHarness
    /\ InitQueueHarness
    /\ InitAssessHarness
    /\ InitController

NextQueue == QueuePush \/ QueuePop

SpecQueue == InitQueue /\ [][NextQueue]_vars

Elems(s) == { s[i] : i \in 1..Len(s) }

Digits == << "0", "1", "2", "3", "4", "5", "6", "7", "8", "9" >>

\* the %d verb of fmt.Sprintf
RECURSIVE FormatInt(_)
FormatInt(n) ==
    IF n < 10 THEN Digits[n + 1]
    ELSE FormatInt(n \div 10) \o Digits[(n % 10) + 1]

\* fault: a count that takes every binding without a Failure for a success
RECURSIVE SuccessesNotFailure(_)
SuccessesNotFailure(results) ==
    IF results = << >> THEN 0
    ELSE (IF Head(results) # PlacementRequestResultFailure THEN 1 ELSE 0)
         + SuccessesNotFailure(Tail(results))

RECURSIVE Successes(_)
Successes(results) ==
    IF results = << >> THEN 0
    ELSE (IF Head(results) = PlacementRequestResultSuccess THEN 1 ELSE 0)
         + Successes(Tail(results))

\* AssessResult, on the Result fields of pr.Status.Bindings
AssessResult(results) ==
    IF Len(results) = 0
    THEN [Result |-> PlacementRequestResultRejected, Message |-> "No bindings"]
    ELSE LET successes == Successes(results) IN
         IF successes = 0
         THEN [Result |-> PlacementRequestResultFailure,
               Message |-> "All bindings failed"]
         ELSE IF successes = Len(results)
         THEN [Result |-> PlacementRequestResultSuccess,
               Message |-> "All bindings succeeded"]
         ELSE [Result |-> PlacementRequestResultPartialSuccess,
               Message |-> FormatInt(successes) \o " of "
                           \o FormatInt(Len(results)) \o " bindings succeeded"]

RECURSIVE SeqsUpTo(_, _)
SeqsUpTo(S, n) ==
    IF n = 0 THEN { << >> }
    ELSE LET shorter == SeqsUpTo(S, n - 1) IN
         shorter \cup { Append(s, x) : s \in shorter, x \in S }

Assess ==
    /\ asResult = Unassessed
    /\ asResult' = AssessResult(asBindings)
    /\ UNCHANGED << queues, pushHandlers, resume, cancelled, itpc, itp, reader,
                    nextClosed, todo, lastRecv, pending, dropped, pqvars,
                    asBindings, fnvars, ctlvars >>

InitAssess ==
    /\ InitQueues
    /\ InitIterator({"Uniform"})
    /\ InitHarness
    /\ InitQueueHarness
    /\ asBindings \in SeqsUpTo({ PlacementRequestResultSuccess,
                                 PlacementRequestResultFailure,
                                 PlacementRequestResultUnknown }, MaxBindings)
    /\ asResult = Unassessed
    /\ InitFnHarness
    /\ InitController

NextAssess == Assess

SpecAssess == InitAssess /\ [][NextAssess]_vars

\* C10: the outcome of AssessResult is fixed by the number k of Success
\* entries among the n entries: n = 0 gives Rejected "No bindings", k = n > 0
\* Success, k = 0 < n Failure, and 0 < k < n PartialSuccess with the message
\* "<k> of <n> bindings succeeded".
C10_AssessByCounts ==
    asResult # Unassessed =>
        LET n == Len(asBindings)
            k == Cardinality({ i \in 1..n :
                                 asBindings[i] = PlacementRequestResultSuccess })
        IN  /\ n = 0 => asResult = [Result |-> PlacementRequestResultRejected,
                                    Message |-> "No bindings"]
            /\ (k = n /\ n > 0) =>
                   asResult.Result = PlacementRequestResultSuccess
            /\ (k = 0 /\ n > 0) =>
                   asResult.Result = PlacementRequestResultFailure
            /\ (0 < k /\ k < n) =>
                   asResult = [Result |-> PlacementRequestResultPartialSuccess,
                               Message |-> ToString(k) \o " of " \o ToString(n)
                                           \o " bindings succeeded"]

C10_Witness ==
    /\ asResult.Result = PlacementRequestResultPartialSuccess
    /\ asResult.Message = "1 of 2 bindings succeeded"

(***************************************************************************)
(* The helpers of pkg/placementrequests.                                   *)
(***************************************************************************)
\* Validate: "" stands for a nil error
\* fault: a Validate without the policy test
ValidateBindingsOnly(pr) ==
    IF Len(PRSpec[pr].Bindings) = 0
    THEN "the placement request has no bindings"
    ELSE ""

Validate(pr) ==
    IF Len(PRSpec[pr].Bindings) = 0
    THEN "the placement request has no bindings"
    ELSE IF PRSpec[pr].Policy # PlacementRequestPolicyLenient
    THEN "unsupported policy: " \o PRSpec[pr].Policy
    ELSE ""

\* fault: a result that is always appended
SetPodBindingResultAppend(sb, entry, i) == Append(sb, entry)

\* SetPodBindingResult: replace the entry of the same podUID, else append
RECURSIVE SetPodBindingResultAt(_, _, _)
SetPodBindingResultAt(sb, entry, i) ==
    IF i > Len(sb) THEN Append(sb, entry)
    ELSE IF sb[i].Binding.PodUID = entry.Binding.PodUID
    THEN [sb EXCEPT ![i] = entry]
    ELSE SetPodBindingResultAt(sb, entry, i + 1)

SetPodBindingResult(sb, bind, result, reason, msg) ==
    SetPodBindingResultAt(
        sb, [Binding |-> bind, Result |-> result, Reason |-> reason,
             Message |-> msg], 1)

\* fault: a failure that is not recorded
SetPodBindingFailureLost(sb, bind, reason, msg) == sb

SetPodBindingFailure(sb, bind, reason, msg) ==
    SetPodBindingResult(sb, bind, PlacementRequestResultFailure, reason, msg)

SetPodBindingSuccess(sb, bind, reason, msg) ==
    SetPodBindingResult(sb, bind, PlacementRequestResultSuccess, reason, msg)

ResultsOf(sb) == [i \in 1..Len(sb) |-> sb[i].Result]

(***************************************************************************)
(* PlacementRequestController: enqueue, TryToRejectPlacementRequest, Run   *)
(* and ScheduleOne.                                                        *)
(***************************************************************************)
\* fault: a lookup that falls back to the first queue
RECURSIVE QueueOfFirst(_, _)
QueueOfFirst(name, i) ==
    IF i > Len(Configs) THEN 1
    ELSE IF Configs[i].SchedulerName = name THEN i
    ELSE QueueOfFirst(name, i + 1)

\* controller.queues[name]: the index of the config, 0 when not found
RECURSIVE QueueOf(_, _)
QueueOf(name, i) ==
    IF i > Len(Configs) THEN 0
    ELSE IF Configs[i].SchedulerName = name THEN i
    ELSE QueueOf(name, i + 1)

\* prqclient.UpdateStatus: the API server takes the status unless the call
\* fails (the request is gone, a conflict, a timeout)
UpdateStatus(pr, status, ok) ==
    IF ok
    THEN [store EXCEPT ![pr].Status = status]
    ELSE store

\* the answers of the API server to an UpdateStatus: it refuses the update
\* of an object that is gone
UpdateAnswers(pr) == IF store[pr].state = "deleted" THEN { FALSE } ELSE BOOLEAN

\* fault: the error of UpdateStatus is dropped
UpdateStatusErrSwallowed(ok) == ""

\* the error UpdateStatus returns, "" for nil
UpdateStatusErr(ok) == IF ok THEN "" ELSE "update refused"

\* fmt.Errorf("failed to update placement request status: %w", err)
Wrapped(err) ==
    IF err = "" THEN "" ELSE "failed to update placement request status: " \o err

\* the object an add event carries: the one handed out before, else the
\* request as the informer sees it now
Delivered(pr, terminating) ==
    IF obj[pr].exists THEN obj[pr]
    ELSE [exists |-> TRUE, DeletionTimestamp |-> terminating,
          Status |-> store[pr].Status]

\* TryToRejectPlacementRequest, on the delivered object
Rejected(o, reason, message) ==
    [o EXCEPT !.Status.Result = PlacementRequestResultRejected,
              !.Status.Reason = reason,
              !.Status.Message = message]

\* fault: an enqueue without the size test
EnqueueVerdictNoSize(pr) ==
    IF PRSpec[pr].SchedulerName = "" THEN [do |-> "drop", reason |-> "", msg |-> ""]
    ELSE IF \A i \in 1..Len(Configs) :
                Configs[i].SchedulerName # PRSpec[pr].SchedulerName
    THEN [do |-> "reject", reason |-> "QueueNotFound",
          msg |-> "Scheduler queue not found"]
    ELSE [do |-> "push", reason |-> "", msg |-> ""]

\* fault: an enqueue without the test of the empty scheduler name
EnqueueVerdictNoName(pr) ==
    LET q == QueueOf(PRSpec[pr].SchedulerName, 1) IN
    IF q = 0
    THEN [do |-> "reject", reason |-> "QueueNotFound",
          msg |-> "Scheduler queue not found"]
    ELSE IF Len(PRSpec[pr].Bindings) > Configs[q].MaxSize
    THEN [do |-> "reject", reason |-> "PlacementRequestTooLarge",
          msg |-> "Placement request too large"]
    ELSE [do |-> "push", reason |-> "", msg |-> ""]

\* what enqueue does with the request: "drop", "reject" or "push"
EnqueueVerdict(pr) ==
    IF PRSpec[pr].SchedulerName = "" THEN [do |-> "drop", reason |-> "", msg |-> ""]
    ELSE LET q == QueueOf(PRSpec[pr].SchedulerName, 1) IN
         IF q = 0
         THEN [do |-> "reject", reason |-> "QueueNotFound",
               msg |-> "Scheduler queue not found"]
         ELSE IF Len(PRSpec[pr].Bindings) > Configs[q].MaxSize
         THEN [do |-> "reject", reason |-> "PlacementRequestTooLarge",
               msg |-> "Placement request too large"]
         ELSE [do |-> "push", reason |-> "", msg |-> ""]

\* an add event of the informer for a request of S: enqueue(obj).  A request
\* may already be terminating when the informer first sees it.
Enqueue(S) ==
    \E pr \in S, terminating \in BOOLEAN, ok \in BOOLEAN :
        LET o == Delivered(pr, terminating)
            v == EnqueueVerdict(pr)
        IN  /\ nadds < MaxAdds
            /\ obj[pr].exists => ~terminating
            /\ nadds' = nadds + 1
            /\ IF v.do = "drop"
               THEN /\ obj' = [obj EXCEPT ![pr] = o]
                    /\ store' = [store EXCEPT ![pr].state =
                                    IF o.DeletionTimestamp /\ @ = "live"
                                    THEN "terminating" ELSE @]
                    /\ ok
                    /\ UNCHANGED << queues, resume, pending, updCalls >>
               ELSE IF v.do = "reject"
               THEN /\ obj' = [obj EXCEPT ![pr] = Rejected(o, v.reason, v.msg)]
                    /\ store' = [UpdateStatus(pr, obj'[pr].Status, ok)
                                   EXCEPT ![pr].state =
                                    IF o.DeletionTimestamp /\ @ = "live"
                                    THEN "terminating" ELSE @]
                    /\ updCalls' = [updCalls EXCEPT ![pr] = @ + 1]
                    /\ UNCHANGED << queues, resume, pending >>
               ELSE /\ obj' = [obj EXCEPT ![pr] = o]
                    /\ store' = [store EXCEPT ![pr].state =
                                    IF o.DeletionTimestamp /\ @ = "live"
                                    THEN "terminating" ELSE @]
                    /\ ok
                    /\ Push(QueueOf(PRSpec[pr].SchedulerName, 1), pr)
                    /\ pending' = [pending EXCEPT ![pr] = @ + 1]
                    /\ UNCHANGED updCalls
            /\ UNCHANGED << pushHandlers, cancelled, itpc, itp, reader,
                            nextClosed, todo, lastRecv, dropped, pqvars, asvars,
                            ctlpc, ctlpr, schedCalls, schedErr, bindCalls >>

\* the requests whose spec bindings name pairwise different pods
UniquePods ==
    { pr \in PRs :
        \A i, j \in 1..Len(PRSpec[pr].Bindings) :
            PRSpec[pr].Bindings[i].PodUID = PRSpec[pr].Bindings[j].PodUID => i = j }

\* the requests with several spec bindings
ManyBindings == { pr \in PRs : Len(PRSpec[pr].Bindings) >= 2 }

\* add events for requests that name each pod once
AddEvent == Enqueue(UniquePods)

\* add events for requests with several bindings, the same pod twice included
AddEventMany == Enqueue(ManyBindings)

\* fault: a Run that starts ScheduleOne in a goroutine of its own and goes
\* back to its select at once
ControllerRecvDetached ==
    /\ itpc = "send"
    /\ ctlpr' = itp
    /\ ctlpc' = "schedule"
    /\ pending' = [pending EXCEPT ![itp] = @ - 1]
    /\ itp' = Nil
    /\ itpc' = "read"
    /\ UNCHANGED << queues, pushHandlers, resume, cancelled, reader,
                    nextClosed, todo, lastRecv, dropped, pqvars, asvars, store,
                    obj, nadds, schedCalls, schedErr, bindCalls, updCalls >>

\* Run, case pr := <-controller.iterator.Next, with the iterator's send
ControllerRecv ==
    /\ ctlpc = "recv"
    /\ itpc = "send"
    /\ ctlpr' = itp
    /\ ctlpc' = "schedule"
    /\ pending' = [pending EXCEPT ![itp] = @ - 1]
    /\ itp' = Nil
    /\ itpc' = "read"
    /\ UNCHANGED << queues, pushHandlers, resume, cancelled, reader,
                    nextClosed, todo, lastRecv, dropped, pqvars, asvars, store,
                    obj, nadds, schedCalls, schedErr, bindCalls, updCalls >>

\* Run, case pr := <-controller.iterator.Next once Next is closed: the
\* receive yields the zero value
ControllerRecvClosed ==
    /\ ctlpc = "recv"
    /\ nextClosed
    /\ ctlpr' = Nil
    /\ ctlpc' = "schedule"
    /\ UNCHANGED << queues, pushHandlers, resume, cancelled, itpc, itp, reader,
                    nextClosed, todo, lastRecv, pending, dropped, pqvars,
                    asvars, store, obj, nadds, schedCalls, schedErr, bindCalls,
                    updCalls >>

\* Run, case <-ctx.Done()
ControllerCtxDone ==
    /\ ctlpc = "recv"
    /\ cancelled
    /\ ctlpc' = "done"
    /\ UNCHANGED << queues, pushHandlers, resume, cancelled, itpc, itp, reader,
                    nextClosed, todo, lastRecv, pending, dropped, pqvars,
                    asvars, store, obj, nadds, ctlpr, schedCalls, schedErr, bindCalls,
                    updCalls >>

\* what the environment answers for one binding: the pod the lister holds
\* ("notfound", or its spec.nodeName), whether the snapshot has the node,
\* whether a plugin rejects, whether the API server denies the Bind
PodViews == { "notfound", "", "n1", "n2" }

BindingInputs ==
    [pod : PodViews, nodeInfo : BOOLEAN, pluginErr : BOOLEAN, bindErr : BOOLEAN]

\* fault: a pod with a nodeName is treated like an unbound pod
OutcomeIgnoresNodeName(binding, in, nplugins) ==
    IF in.pod = "notfound" THEN "API error"
    ELSE IF nplugins > 0 /\ ~in.nodeInfo THEN "nodeinfo missing"
    ELSE IF nplugins > 0 /\ in.pluginErr THEN "plugin rejected"
    ELSE IF in.bindErr THEN "API denied binding"
    ELSE "Binding successful"

\* the branch the loop body takes for one binding: the lister's answer
\* first, then for an unbound pod the plugin loop (which looks up the
\* node-info once per enabled plugin), then the Bind call
Outcome(binding, in, nplugins) ==
    IF in.pod = "notfound" THEN "API error"
    ELSE IF in.pod # ""
    THEN IF in.pod = binding.NodeName THEN "Binding unneeded"
         ELSE "Pod already bound"
    ELSE IF nplugins > 0 /\ ~in.nodeInfo THEN "nodeinfo missing"
    ELSE IF nplugins > 0 /\ in.pluginErr THEN "plugin rejected"
    ELSE IF in.bindErr THEN "API denied binding"
    ELSE "Binding successful"

\* the result the branch records for the binding
RecordOutcome(sb, binding, outcome) ==
    IF outcome = "API error"
    THEN SetPodBindingFailure(sb, binding, "API error",
             "Failed to get pod " \o binding.PodName \o ": not found")
    ELSE IF outcome = "Binding unneeded"
    THEN SetPodBindingSuccess(sb, binding, "Binding unneeded",
             "Pod was already bound")
    ELSE IF outcome = "Pod already bound"
    THEN SetPodBindingFailure(sb, binding, "Pod already bound",
             "Pod " \o binding.PodName \o " bound to a different node node")
    ELSE IF outcome = "nodeinfo missing"
    THEN SetPodBindingFailure(sb, binding, "validation failed",
             "nodeinfo missing for a node")
    ELSE IF outcome = "plugin rejected"
    THEN SetPodBindingFailure(sb, binding, "validation failed",
             "plugin rejected")
    ELSE IF outcome = "API denied binding"
    THEN SetPodBindingFailure(sb, binding, "API denied binding", "bind denied")
    ELSE SetPodBindingSuccess(sb, binding, "Binding successful",
             "Pod successfully bound")

\* the branches that reach binder.Bind
IssuesBind(outcome) == outcome \in { "API denied binding", "Binding successful" }

\* fault: a plugin's rejection does not end the binding loop
BreaksOnNodeInfoOnly(outcome) == outcome = "nodeinfo missing"

\* fault: a pod the lister does not find ends the binding loop
BreaksOnMiss(outcome) ==
    outcome \in { "nodeinfo missing", "plugin rejected", "API error" }

\* validationFailed: the branches that break out of the binding loop; every
\* other branch continues with the next binding
Breaks(outcome) == outcome \in { "nodeinfo missing", "plugin rejected" }

\* the binding loop of ScheduleOne from binding i on: the status bindings
\* it leaves and, per spec binding, whether a Bind request was issued
RECURSIVE BindingLoop(_, _, _, _, _, _)
BindingLoop(bs, ins, i, nplugins, sb, binds) ==
    IF i > Len(bs) THEN [Bindings |-> sb, binds |-> binds]
    ELSE
    LET outcome == Outcome(bs[i], ins[i], nplugins)
        sb2 == RecordOutcome(sb, bs[i], outcome)
        binds2 == IF IssuesBind(outcome) THEN [binds EXCEPT ![i] = 1] ELSE binds
    IN  IF Breaks(outcome)
        THEN [Bindings |-> sb2, binds |-> binds2]
        ELSE BindingLoop(bs, ins, i + 1, nplugins, sb2, binds2)

\* fault: a skip test that looks at the deletionTimestamp only
SkippedDeletedOnly(o) == o.DeletionTimestamp

\* fault: a skip test that looks at the result only
SkippedTerminalOnly(o) == o.Status.Result # PlacementRequestResultUnknown

\* fault: no skip test
SkippedNever(o) == FALSE

\* the skip test at the top of ScheduleOne
Skipped(o) ==
    o.DeletionTimestamp \/ o.Status.Result # PlacementRequestResultUnknown

\* ScheduleOne(ctx, pr) for the request Run received
ScheduleOne ==
    /\ ctlpc = "schedule"
    /\ IF ctlpr = Nil
       THEN \* pr.Name on a nil request
            /\ ctlpc' = "panic"
            /\ UNCHANGED << store, obj, schedCalls, schedErr, bindCalls, updCalls >>
       ELSE LET pr == ctlpr
                o == obj[pr]
                q == QueueOf(PRSpec[pr].SchedulerName, 1)
                bs == PRSpec[pr].Bindings
            IN
            /\ schedCalls' = [schedCalls EXCEPT ![pr] = @ + 1]
            /\ IF Skipped(o)
               THEN /\ ctlpc' = "recv"
                    /\ schedErr' = ""
                    /\ UNCHANGED << store, obj, bindCalls, updCalls >>
               ELSE IF Validate(pr) # ""
               THEN \E ok \in UpdateAnswers(pr) :
                    /\ obj' = [obj EXCEPT
                                 ![pr].Status.Result = PlacementRequestResultRejected,
                                 ![pr].Status.Message = Validate(pr)]
                    /\ store' = UpdateStatus(pr, obj'[pr].Status, ok)
                    /\ updCalls' = [updCalls EXCEPT ![pr] = @ + 1]
                    /\ schedErr' = UpdateStatusErr(ok)
                    /\ ctlpc' = "recv"
                    /\ UNCHANGED bindCalls
               ELSE \E snapErr \in BOOLEAN :
                    IF snapErr
                    THEN \* cache.UpdateSnapshot or NodeInfos().List() failed
                         /\ ctlpc' = "recv"
                         /\ schedErr' = "unable to update a snapshot"
                         /\ UNCHANGED << store, obj, bindCalls, updCalls >>
                    ELSE IF q = 0
                    THEN \* no profile for the scheduler
                         /\ ctlpc' = "panic"
                         /\ UNCHANGED << store, obj, schedErr, bindCalls, updCalls >>
                    ELSE \E ok \in UpdateAnswers(pr) :
                         \E out \in { BindingLoop(bs, ins, 1, Configs[q].Plugins,
                                          o.Status.Bindings,
                                          [i \in 1..Len(bs) |-> 0]) :
                                      ins \in [1..Len(bs) -> BindingInputs] } :
                         LET res == AssessResult(ResultsOf(out.Bindings)) IN
                         /\ obj' = [obj EXCEPT
                                      ![pr].Status.Bindings = out.Bindings,
                                      ![pr].Status.Result = res.Result,
                                      ![pr].Status.Message = res.Message]
                         /\ bindCalls' = [bindCalls EXCEPT ![pr] =
                                            [i \in 1..Len(bs) |-> @[i] + out.binds[i]]]
                         /\ store' = UpdateStatus(pr, obj'[pr].Status, ok)
                         /\ updCalls' = [updCalls EXCEPT ![pr] = @ + 1]
                         /\ schedErr' = Wrapped(UpdateStatusErr(ok))
                         /\ ctlpc' = "recv"
    /\ UNCHANGED << queues, pushHandlers, resume, cancelled, itpc, itp, reader,
                    nextClosed, todo, lastRecv, pending, dropped, pqvars,
                    asvars, nadds, ctlpr >>

InitCtl ==
    /\ InitQueues
    /\ InitIterator({"RoundRobin", "Uniform"})
    /\ InitHarness
    /\ InitQueueHarness
    /\ InitAssessHarness
    /\ InitController

\* the controller while its context is live
NextCtl ==
    \/ AddEvent
    \/ RunLive
    \/ ControllerRecv
    \/ ScheduleOne

SpecCtl == InitCtl /\ [][NextCtl]_vars

\* the controller with its shutdown
NextCtlCancel ==
    \/ NextCtl
    \/ Cancel
    \/ ControllerRecvClosed
    \/ ControllerCtxDone

SpecCtlCancel == InitCtl /\ [][NextCtlCancel]_vars

\* the controller fed requests with several bindings
NextCtlMany ==
    \/ AddEventMany
    \/ RunLive
    \/ ControllerRecv
    \/ ScheduleOne

SpecCtlMany == InitCtl /\ [][NextCtlMany]_vars

(***************************************************************************)
(* Properties of admission and dispatch.                                   *)
(***************************************************************************)
InAQueue(pr) ==
    \E q \in QueueIds : \E i \in 1..Len(queues[q]) : queues[q][i] = pr

\* the request has more bindings than the queue of its scheduler takes
Oversized(pr) ==
    \E q \in QueueIds :
        /\ Configs[q].SchedulerName = PRSpec[pr].SchedulerName
        /\ Len(PRSpec[pr].Bindings) > Configs[q].MaxSize

\* the request names a scheduler no queue is configured for
Unrouted(pr) ==
    /\ PRSpec[pr].SchedulerName # ""
    /\ \A q \in QueueIds : Configs[q].SchedulerName # PRSpec[pr].SchedulerName

\* the request never entered a queue, the iterator or the dispatcher
NeverQueued(pr) ==
    /\ ~InAQueue(pr)
    /\ pending[pr] = 0
    /\ itp # pr
    /\ ctlpr # pr
    /\ schedCalls[pr] = 0

\* every admission of the request issued a status write of the rejection,
\* and the API server holds either that status or, where the write failed,
\* the one the request was created with
RejectedWith(pr, reason) ==
    obj[pr].exists =>
        /\ obj[pr].Status.Result = PlacementRequestResultRejected
        /\ obj[pr].Status.Reason = reason
        /\ updCalls[pr] >= 1
        /\ store[pr].Status \in { EmptyStatus, obj[pr].Status }

\* C1: once the API server holds a non-Unknown status.result for a request,
\* no later step of the controller (a dispatch by ScheduleOne, a rejection by
\* enqueue, on first or re-delivered add events) changes that result.
C1_ResultWriteOnce ==
    [][\A pr \in PRs :
          store[pr].Status.Result # PlacementRequestResultUnknown
              => store'[pr].Status.Result = store[pr].Status.Result]_vars

\* a request holds a written result and was dispatched again after it
C1_Witness ==
    \E pr \in PRs :
        /\ store[pr].Status.Result = PlacementRequestResultSuccess
        /\ schedCalls[pr] = 2
        /\ updCalls[pr] = 1

\* C2: a ScheduleOne call on a request whose result is not Unknown or whose
\* deletionTimestamp is set returns nil, issues no Bind and no status
\* update, and leaves the status of the request as it was.
C2_SkipIsFrameFree ==
    [][\A pr \in PRs :
          ( /\ schedCalls'[pr] = schedCalls[pr] + 1
            /\ \/ obj[pr].DeletionTimestamp
               \/ obj[pr].Status.Result # PlacementRequestResultUnknown )
              => /\ schedErr' = ""
                 /\ bindCalls' = bindCalls
                 /\ updCalls' = updCalls
                 /\ store' = store
                 /\ obj' = obj]_vars

\* a terminating request went through ScheduleOne twice and nothing was
\* written or bound for it
C2_Witness ==
    \E pr \in PRs :
        /\ obj[pr].DeletionTimestamp
        /\ schedCalls[pr] = 2
        /\ updCalls[pr] = 0
        /\ \A i \in 1..Len(bindCalls[pr]) : bindCalls[pr][i] = 0
        /\ store[pr].Status = EmptyStatus

\* C3 as stated: at most one Bind per spec binding, the first dispatch of a
\* request leaves it with a terminal result, every later dispatch is skipped.
C3_FirstDispatchTerminal ==
    /\ [](\A pr \in PRs : \A i \in 1..Len(bindCalls[pr]) : bindCalls[pr][i] <= 1)
    /\ [][\A pr \in PRs :
            schedCalls'[pr] = schedCalls[pr] + 1 =>
                IF schedCalls[pr] = 0
                THEN obj'[pr].Status.Result # PlacementRequestResultUnknown
                ELSE /\ obj' = obj
                     /\ bindCalls' = bindCalls
                     /\ updCalls' = updCalls]_vars

\* C3 amended: at most one Bind request per spec binding; a dispatch of a
\* request that is not terminating and has no result either fails to refresh
\* the node snapshot and changes nothing, or leaves the request with a
\* terminal result after one status update; a result once set stays, and
\* every dispatch of a request that has one is skipped.
C3_AtMostOnceDispatch ==
    /\ [](\A pr \in PRs : \A i \in 1..Len(bindCalls[pr]) : bindCalls[pr][i] <= 1)
    /\ [][\A pr \in PRs :
            /\ obj[pr].Status.Result # PlacementRequestResultUnknown
                  => obj'[pr].Status.Result = obj[pr].Status.Result
            /\ schedCalls'[pr] = schedCalls[pr] + 1 =>
                  IF obj[pr].Status.Result # PlacementRequestResultUnknown
                     \/ obj[pr].DeletionTimestamp
                  THEN /\ bindCalls' = bindCalls
                       /\ updCalls' = updCalls
                  ELSE \/ /\ schedErr' = "unable to update a snapshot"
                          /\ obj' = obj
                          /\ bindCalls' = bindCalls
                          /\ updCalls' = updCalls
                       \/ /\ obj'[pr].Status.Result # PlacementRequestResultUnknown
                          /\ updCalls'[pr] = updCalls[pr] + 1]_vars

\* a request delivered twice was bound by its first dispatch and skipped
\* by its second
C3_Witness ==
    \E pr \in PRs :
        /\ nadds = 2
        /\ schedCalls[pr] = 2
        /\ Len(bindCalls[pr]) = 2
        /\ \A i \in 1..2 : bindCalls[pr][i] = 1
        /\ obj[pr].Status.Result # PlacementRequestResultUnknown
        /\ updCalls[pr] = 1

\* C8: a request with more spec bindings than the maxSize of its
\* scheduler's queue is never in a queue, never read by the iterator and
\* never dispatched; each admission of it issues a status write with result
\* Rejected and reason "PlacementRequestTooLarge".
C8_OversizedRejected ==
    \A pr \in PRs :
        Oversized(pr) =>
            /\ NeverQueued(pr)
            /\ RejectedWith(pr, "PlacementRequestTooLarge")

\* the API server holds the rejection of an oversized request
C8_Witness ==
    \E pr \in PRs :
        /\ Oversized(pr)
        /\ store[pr].Status.Result = PlacementRequestResultRejected
        /\ store[pr].Status.Reason = "PlacementRequestTooLarge"

Written(pr) == schedCalls[pr] >= 1 /\ updCalls[pr] >= 1

\* the structural veto: no spec binding, or a policy other than Lenient
Vetoed(pr) ==
    \/ Len(PRSpec[pr].Bindings) = 0
    \/ PRSpec[pr].Policy # PlacementRequestPolicyLenient

SuccessEntries(sb) ==
    Cardinality({ i \in 1..Len(sb) : sb[i].Result = PlacementRequestResultSuccess })

NoBind(pr) == \A i \in 1..Len(bindCalls[pr]) : bindCalls[pr][i] = 0

\* C11: in every status ScheduleOne writes the result is Rejected exactly
\* when the structural veto stopped the request before any binding was
\* attempted (and then status.bindings is empty); otherwise status.bindings
\* is not empty and the result is Success iff every entry is Success,
\* Failure iff none is, and PartialSuccess, with "<k> of <n> bindings
\* succeeded", in between.  The API server holds that status or none.
C11_ResultFromBindings ==
    \A pr \in PRs :
        Written(pr) =>
            LET st == obj[pr].Status
                n == Len(st.Bindings)
                k == SuccessEntries(st.Bindings)
            IN  /\ store[pr].Status \in { EmptyStatus, st }
                /\ st.Result = PlacementRequestResultRejected <=> Vetoed(pr)
                /\ Vetoed(pr) => n = 0 /\ NoBind(pr)
                /\ ~Vetoed(pr) =>
                     /\ n >= 1
                     /\ st.Result = PlacementRequestResultSuccess <=> k = n
                     /\ st.Result = PlacementRequestResultFailure <=> k = 0
                     /\ st.Result = PlacementRequestResultPartialSuccess
                            <=> (0 < k /\ k < n)
                     /\ (0 < k /\ k < n) =>
                            st.Message = ToString(k) \o " of " \o ToString(n)
                                         \o " bindings succeeded"

\* two bindings, the first bound and the second denied by the API server
C11_Witness ==
    \E pr \in PRs :
        /\ Written(pr)
        /\ Len(store[pr].Status.Bindings) = 2
        /\ store[pr].Status.Bindings[1].Reason = "Binding successful"
        /\ store[pr].Status.Bindings[2].Reason = "API denied binding"
        /\ store[pr].Status.Result = PlacementRequestResultPartialSuccess
        /\ store[pr].Status.Message = "1 of 2 bindings succeeded"

\* the first spec binding of the request that names the pod
FirstNaming(pr, uid) ==
    CHOOSE i \in 1..Len(PRSpec[pr].Bindings) :
        /\ PRSpec[pr].Bindings[i].PodUID = uid
        /\ \A l \in 1..(i - 1) : PRSpec[pr].Bindings[l].PodUID # uid

\* C12: after ScheduleOne processed a request, no two status.bindings
\* entries carry the same podUID, and for the spec bindings 1..a the loop
\* acted on (all of them, unless a validation failure on binding a broke the
\* loop) every podUID has its entry, every entry carries the last acted
\* binding of its podUID, and the entries stand in the order in which their
\* pods were first named: a later result for a pod replaced the entry in
\* place.
C12_OneEntryPerPod ==
    \A pr \in PRs :
        (Written(pr) /\ ~Vetoed(pr)) =>
            LET sb == obj[pr].Status.Bindings
                bs == PRSpec[pr].Bindings
            IN  /\ \A i, j \in 1..Len(sb) :
                      sb[i].Binding.PodUID = sb[j].Binding.PodUID => i = j
                /\ \E a \in 1..Len(bs) :
                      /\ \A i \in 1..a : \E e \in 1..Len(sb) :
                            sb[e].Binding.PodUID = bs[i].PodUID
                      /\ \A e \in 1..Len(sb) : \E i \in 1..a :
                            /\ sb[e].Binding = bs[i]
                            /\ \A l \in (i + 1)..a : bs[l].PodUID # bs[i].PodUID
                      /\ a < Len(bs) =>
                            \E e \in 1..Len(sb) :
                               /\ sb[e].Binding = bs[a]
                               /\ sb[e].Reason = "validation failed"
                /\ \A e, f \in 1..Len(sb) :
                      e < f => FirstNaming(pr, sb[e].Binding.PodUID)
                                  < FirstNaming(pr, sb[f].Binding.PodUID)

\* a request naming one pod twice was bound on its first binding and denied
\* on its second: the one entry of the pod carries the second binding
C12_Witness ==
    \E pr \in PRs :
        /\ Written(pr)
        /\ pr \notin UniquePods
        /\ bindCalls[pr] = << 1, 1 >>
        /\ Len(obj[pr].Status.Bindings) = 1
        /\ obj[pr].Status.Bindings[1].Binding = PRSpec[pr].Bindings[2]
        /\ obj[pr].Status.Bindings[1].Reason = "API denied binding"

(***************************************************************************)
(* UniformReader.next over drawn weights: every value rand.Intn(total) + 1 *)
(* can take is tried once.                                                 *)
(***************************************************************************)
\* everything but the function under study, at rest
InitAtRest ==
    /\ InitQueues
    /\ InitIterator({"Uniform"})
    /\ InitHarness
    /\ InitQueueHarness
    /\ asBindings = << >>
    /\ asResult = Unassessed
    /\ InitController

RECURSIVE SumWeights(_)
SumWeights(ws) == IF ws = << >> THEN 0 ELSE Head(ws) + SumWeights(Tail(ws))

\* the weight lists of one to MaxQueues queues
WeightLists == SeqsUpTo(1..MaxWeight, MaxQueues) \ { << >> }

InitUniform ==
    /\ InitAtRest
    /\ fnIn \in WeightLists
    /\ fnOut = [drawn |-> 0, hits |-> [i \in 1..Len(fnIn) |-> 0], panics |-> 0]

\* next(configs) with selected the next value not yet tried
UniformDraw ==
    /\ fnOut.drawn < SumWeights(fnIn)
    /\ LET selected == fnOut.drawn + 1
           qidx == WalkWeights(fnIn, selected, 1, 0)
       IN  fnOut' = [drawn |-> selected,
                     hits |-> IF qidx = 0 THEN fnOut.hits
                              ELSE [fnOut.hits EXCEPT ![qidx] = @ + 1],
                     panics |-> fnOut.panics + (IF qidx = 0 THEN 1 ELSE 0)]
    /\ UNCHANGED << queues, pushHandlers, resume, cancelled, itpc, itp, reader,
                    nextClosed, todo, lastRecv, pending, dropped, pqvars,
                    asBindings, asResult, fnIn, ctlvars >>

NextUniform == UniformDraw

SpecUniform == InitUniform /\ [][NextUniform]_vars

\* C13: for weights >= 1 no draw value in 1..total makes next panic, no
\* queue is selected by more draw values than its weight, and once every
\* value was tried queue i was selected by exactly weight_i of them.
C13_UniformShare ==
    /\ fnOut.panics = 0
    /\ \A i \in 1..Len(fnIn) : fnOut.hits[i] <= fnIn[i]
    /\ fnOut.drawn = SumWeights(fnIn) =>
          \A i \in 1..Len(fnIn) : fnOut.hits[i] = fnIn[i]

\* weights 2, 1, 3: all six draw values tried
C13_Witness ==
    /\ fnIn = << 2, 1, 3 >>
    /\ fnOut.drawn = 6
    /\ fnOut.hits = << 2, 1, 3 >>

(***************************************************************************)
(* NewRoundRobinReader over drawn weights.                                 *)
(***************************************************************************)
\* slices.MinFunc over the weights
RECURSIVE MinOf(_)
MinOf(ws) ==
    IF Len(ws) = 1 THEN ws[1]
    ELSE LET m == MinOf(Tail(ws)) IN IF m < ws[1] THEN m ELSE ws[1]

\* NewRoundRobinReader: the panic on a zero weight, else the extended configs
NewRoundRobinReader(ws) ==
    IF MinOf(ws) = 0
    THEN [done |-> TRUE, panic |-> TRUE, configs |-> << >>]
    ELSE [done |-> TRUE, panic |-> FALSE,
          configs |-> [i \in 1..Len(ws) |->
                          [Weight |-> ws[i],
                           MaximumBindings |-> Quota(ws[i], MinOf(ws)),
                           BindingsRead |-> 0]]]

\* the weights of TestNewRoundRobinReader
TestWeights == << 2, 3, 4, 2, 13 >>

InitQuota ==
    /\ InitAtRest
    /\ fnIn \in (SeqsUpTo(0..MaxWeight, MaxQueues) \ { << >> }) \cup { TestWeights }
    /\ fnOut = [done |-> FALSE, panic |-> FALSE, configs |-> << >>]

Construct ==
    /\ ~fnOut.done
    /\ fnOut' = NewRoundRobinReader(fnIn)
    /\ UNCHANGED << queues, pushHandlers, resume, cancelled, itpc, itp, reader,
                    nextClosed, todo, lastRecv, pending, dropped, pqvars,
                    asBindings, asResult, fnIn, ctlvars >>

NextQuota == Construct

SpecQuota == InitQuota /\ [][NextQuota]_vars

\* C15: NewRoundRobinReader panics exactly when some weight is 0; otherwise
\* queue i gets BindingsRead 0 and the least whole quota q with
\* q * min weight >= 10 * weight_i, so a queue of the least weight gets 10,
\* every quota is at least 10, and the weights 2, 3, 4, 2, 13 give
\* 10, 15, 20, 10, 65.
C15_Quotas ==
    fnOut.done =>
        LET zero == \E i \in 1..Len(fnIn) : fnIn[i] = 0
            least == CHOOSE w \in { fnIn[i] : i \in 1..Len(fnIn) } :
                        \A i \in 1..Len(fnIn) : w <= fnIn[i]
        IN  /\ fnOut.panic <=> zero
            /\ ~zero =>
                 /\ Len(fnOut.configs) = Len(fnIn)
                 /\ \A i \in 1..Len(fnIn) :
                      LET q == fnOut.configs[i].MaximumBindings IN
                      /\ fnOut.configs[i].BindingsRead = 0
                      /\ q * least >= 10 * fnIn[i]
                      /\ (q - 1) * least < 10 * fnIn[i]
                      /\ q >= 10
                      /\ fnIn[i] = least => q = 10
            /\ fnIn = TestWeights =>
                 [i \in 1..5 |-> fnOut.configs[i].MaximumBindings]
                     = << 10, 15, 20, 10, 65 >>

\* the reader of the test's weights is built
C15_Witness ==
    /\ fnIn = TestWeights
    /\ fnOut.done
    /\ ~fnOut.panic
    /\ fnOut.configs[5].MaximumBindings = 65

\* ---------------------------------------------------------------------
\* RoundRobinReader.Read over queues that are kept non-empty
\* ---------------------------------------------------------------------

\* the binding counts a popped request may carry
RequestSizes == { 0, 1, BigRequest }

\* fault: a next that takes any counter different from the quota as not
\* exhausted
NextConfigNotEqual(cs) ==
    IF \E i \in 1..Len(cs) : cs[i].BindingsRead # cs[i].MaximumBindings
    THEN CHOOSE i \in 1..Len(cs) :
            /\ cs[i].BindingsRead # cs[i].MaximumBindings
            /\ \A j \in 1..(i - 1) : cs[j].BindingsRead = cs[j].MaximumBindings
    ELSE 0

\* fault: a next that returns the last queue below its quota
NextConfigLast(cs) ==
    IF \E i \in 1..Len(cs) : cs[i].BindingsRead < cs[i].MaximumBindings
    THEN CHOOSE i \in 1..Len(cs) :
            /\ cs[i].BindingsRead < cs[i].MaximumBindings
            /\ \A j \in (i + 1)..Len(cs) :
                  ~(cs[j].BindingsRead < cs[j].MaximumBindings)
    ELSE 0

\* RoundRobinReader.next over extended configs; 0 stands for -1
NextConfig(cs) ==
    IF \E i \in 1..Len(cs) : cs[i].BindingsRead < cs[i].MaximumBindings
    THEN CHOOSE i \in 1..Len(cs) :
            /\ cs[i].BindingsRead < cs[i].MaximumBindings
            /\ \A j \in 1..(i - 1) : ~(cs[j].BindingsRead < cs[j].MaximumBindings)
    ELSE 0

\* fault: a reset that zeroes the loop variable only
ResetConfigsCopy(cs) == cs

\* RoundRobinReader.reset over extended configs
ResetConfigs(cs) == [i \in 1..Len(cs) |-> [cs[i] EXCEPT !.BindingsRead = 0]]

\* fault: the counter is charged one per request instead of one per binding
ChargePerRequest(read, n) == read + 1

\* BindingsRead += len(pr.Spec.Bindings)
Charge(read, n) == read + n

Zeros(n) == [i \in 1..n |-> 0]

\* a reader fresh from NewRoundRobinReader; nothing read yet
InitCycle ==
    /\ InitAtRest
    /\ fnIn \in WeightLists
    /\ fnOut = [configs |-> NewRoundRobinReader(fnIn).configs,
                emitted |-> Zeros(Len(fnIn)),
                last |-> Zeros(Len(fnIn)),
                panics |-> 0]

\* one Read with every queue non-empty: empty() is false and Pop returns a
\* request of n bindings. emitted counts the bindings of the requests
\* returned since the last reset, last is the size of the latest request of
\* each queue.
CycleRead ==
    /\ fnOut.panics = 0
    /\ \E n \in RequestSizes :
        LET first == NextConfig(fnOut.configs)
            cs == IF first = 0 THEN ResetConfigs(fnOut.configs) ELSE fnOut.configs
            emitted == IF first = 0 THEN Zeros(Len(fnIn)) ELSE fnOut.emitted
            last == IF first = 0 THEN Zeros(Len(fnIn)) ELSE fnOut.last
            index == NextConfig(cs)
        IN  IF index = 0
            THEN fnOut' = [fnOut EXCEPT !.panics = 1]
            ELSE fnOut' = [fnOut EXCEPT
                    !.configs = [cs EXCEPT ![index].BindingsRead = Charge(@, n)],
                    !.emitted = [emitted EXCEPT ![index] = @ + n],
                    !.last = [last EXCEPT ![index] = n]]
    /\ UNCHANGED << queues, pushHandlers, resume, cancelled, itpc, itp, reader,
                    nextClosed, todo, lastRecv, pending, dropped, pqvars,
                    asBindings, asResult, fnIn, ctlvars >>

NextCycle == CycleRead

SpecCycle == InitCycle /\ [][NextCycle]_vars

\* every quota is used up: the next Read resets the counters
CycleClosed == NextConfig(fnOut.configs) = 0

Abs(x) == IF x < 0 THEN -x ELSE x

\* C14 as stated: at the end of a quota cycle the share of the bindings
\* emitted from queue i is weight_i / sum of weights within 1 / MinimumBindings,
\* whatever the sizes of the requests.
C14_WeightShare ==
    CycleClosed =>
        \A i \in 1..Len(fnIn) :
            Abs(fnOut.emitted[i] * SumWeights(fnIn) - fnIn[i] * SumWeights(fnOut.emitted))
                * MinimumBindings
              <= SumWeights(fnIn) * SumWeights(fnOut.emitted)

\* C14 amended: Read never panics, and at the end of a quota cycle queue i
\* has emitted at least its quota and less than its quota plus the size of
\* the last request read from it; with one binding per request it has
\* emitted exactly its quota ceil(10 * weight_i / least weight).
C14_QuotaCycle ==
    /\ fnOut.panics = 0
    /\ CycleClosed =>
        \A i \in 1..Len(fnIn) :
            /\ fnOut.emitted[i] >= Quota(fnIn[i], MinOf(fnIn))
            /\ fnOut.emitted[i] < Quota(fnIn[i], MinOf(fnIn)) + fnOut.last[i]
            /\ fnOut.last[i] >= 1

\* a closed cycle in which the light queue ran over its quota of 10
C14_Witness ==
    /\ fnIn = << 1, 2 >>
    /\ CycleClosed
    /\ fnOut.emitted = << 18, 20 >>

\* C16: a Push never blocks on the iterator. The resume channel never holds
\* more than its capacity, and a producer with room in its queue can always
\* complete its Push, whatever the number of pending resume signals, whether
\* Run is reading, sending, waiting or has returned, and whether or not the
\* consumer takes what is sent on Next.
C16_PushNeverBlocks ==
    /\ resume \in 0..ResumeCap
    /\ \A q \in QueueIds : \A pr \in QueuePRs(q) :
          QLen(q) < MaxQueueLen => ENABLED EndlessPushOf(q, pr)

\* Run has returned and closed Next, the resume channel is full and both
\* queues were filled: of the four pushes at most ResumeCap found room in the
\* channel, the others completed against a full channel
C16_Witness ==
    /\ itpc = "done"
    /\ nextClosed
    /\ resume = ResumeCap
    /\ \A q \in QueueIds : QLen(q) = MaxQueueLen

\* ---------------------------------------------------------------------
\* Push handlers of one PlacementRequestQueue
\* ---------------------------------------------------------------------

\* the functions handed to AddPushHandler: the iterator's Resume and the
\* counter of TestPlacementRequestPushHandlers
HandlerFns == { "Resume", "Count" }

\* the requests pushed: one with the oldest and one with a later timestamp
HandlerPRs == { 1, 2 }

\* fault: the handler loop stops after the first handler
PushCallsFirstOnly(s, pr, hs) ==
    [i \in 1..(IF Len(hs) = 0 THEN 0 ELSE 1) |->
        [slot |-> i, fn |-> hs[i], len |-> Len(heapPush(s, pr))]]

\* the handler calls of one Push, in the order of the range loop; each call
\* is made with the new request already in the heap
PushCalls(s, pr, hs) ==
    [i \in 1..Len(hs) |-> [slot |-> i, fn |-> hs[i], len |-> Len(heapPush(s, pr))]]

\* Pop and Len call no handler
NoCalls == << >>

RECURSIVE Tally(_, _)
\* the calls of a Push added to the per-registration call counts
Tally(counts, calls) ==
    IF calls = << >> THEN counts
    ELSE Tally([counts EXCEPT ![Head(calls).slot] = @ + 1], Tail(calls))

\* NewPlacementRequestQueue: an empty heap and no handler. fnOut.calls are the
\* handler calls of the latest operation, counts[i] the calls of the i-th
\* registration so far, since[i] the pushes completed after it was registered.
InitHandlers ==
    /\ queues = [q \in QueueIds |-> << >>]
    /\ pushHandlers = [q \in QueueIds |-> << >>]
    /\ resume = 0
    /\ InitIterator({"Uniform"})
    /\ InitHarness
    /\ InitQueueHarness
    /\ asBindings = << >>
    /\ asResult = Unassessed
    /\ InitController
    /\ fnIn = << >>
    /\ fnOut = [calls |-> NoCalls, counts |-> << >>, since |-> << >>, pushes |-> 0,
                len |-> 0]

HandlerRest ==
    UNCHANGED << cancelled, itpc, itp, reader, nextClosed, todo, lastRecv,
                 pending, dropped, lastPopped, asBindings, asResult, fnIn,
                 ctlvars >>

\* AddPushHandler(handler)
AddPushHandler ==
    \E fn \in HandlerFns :
        /\ Len(pushHandlers[1]) < MaxHandlers
        /\ pushHandlers' = [pushHandlers EXCEPT ![1] = Append(@, fn)]
        /\ fnOut' = [fnOut EXCEPT !.calls = NoCalls,
                                  !.counts = Append(@, 0),
                                  !.since = Append(@, 0)]
        /\ lastOp' = "add"
        /\ UNCHANGED << queues, resume >>
        /\ HandlerRest

\* Push(pr)
HandlerPush ==
    \E pr \in HandlerPRs :
        /\ fnOut.pushes < MaxHeap
        /\ Push(1, pr)
        /\ LET calls == PushCalls(queues[1], pr, pushHandlers[1]) IN
           fnOut' = [fnOut EXCEPT !.calls = calls,
                                  !.counts = Tally(@, calls),
                                  !.since = [i \in 1..Len(@) |-> @[i] + 1],
                                  !.pushes = @ + 1]
        /\ lastOp' = "push"
        /\ UNCHANGED pushHandlers
        /\ HandlerRest

\* Pop()
HandlerPop ==
    /\ queues' = [queues EXCEPT ![1] = PopRest(@)]
    /\ fnOut' = [fnOut EXCEPT !.calls = NoCalls]
    /\ lastOp' = "pop"
    /\ UNCHANGED << pushHandlers, resume >>
    /\ HandlerRest

\* Len()
HandlerLen ==
    /\ fnOut' = [fnOut EXCEPT !.calls = NoCalls, !.len = QLen(1)]
    /\ lastOp' = "len"
    /\ UNCHANGED << queues, pushHandlers, resume >>
    /\ HandlerRest

NextHandlers == AddPushHandler \/ HandlerPush \/ HandlerPop \/ HandlerLen

SpecHandlers == InitHandlers /\ [][NextHandlers]_vars

\* C17: a Push calls the registered handlers once each, in registration
\* order and with the pushed request already in the queue; Pop, Len and
\* AddPushHandler call none, so every registration has been called exactly
\* once per Push completed since it was added.
C17_HandlersOncePerPush ==
    /\ lastOp = "push" =>
          /\ Len(fnOut.calls) = Len(pushHandlers[1])
          /\ \A i \in 1..Len(fnOut.calls) :
                /\ fnOut.calls[i].slot = i
                /\ fnOut.calls[i].fn = pushHandlers[1][i]
                /\ fnOut.calls[i].len = QLen(1)
    /\ lastOp \in { "pop", "len", "add" } => fnOut.calls = << >>
    /\ fnOut.counts = fnOut.since

\* three handlers, the last registered after the first push: the latest of
\* three pushes called the three of them in order
C17_Witness ==
    /\ lastOp = "push"
    /\ pushHandlers[1] = << "Count", "Resume", "Count" >>
    /\ fnOut.counts = << 3, 3, 2 >>
    /\ [i \in 1..3 |-> fnOut.calls[i].slot] = << 1, 2, 3 >>

\* the first dispatch of pr has just returned nil
FirstDispatchOk(pr) ==
    /\ ctlpr = pr
    /\ ctlpc = "recv"
    /\ schedCalls[pr] = 1
    /\ schedErr = ""

ConfigInputs ==
    [SchedulerName : { "", "s1", "s2" }, Weight : 0..1, MaxSize : 0..1,
     QueueRef : { Nil } \cup QueueIds]

\* fmt's %q of a plain name
Quoted(name) == "\"" \o name \o "\""

\* fault: a QueueConfig.Validate without the max size test
QueueConfigValidateNoMaxSize(c) ==
    IF c.SchedulerName = "" THEN "queue name cannot be empty"
    ELSE IF c.Weight = 0 THEN "queue weight must be greater than zero"
    ELSE IF c.QueueRef = Nil THEN "queue reference cannot be nil"
    ELSE ""

\* QueueConfig.Validate; "" stands for nil
QueueConfigValidate(c) ==
    IF c.SchedulerName = "" THEN "queue name cannot be empty"
    ELSE IF c.Weight = 0 THEN "queue weight must be greater than zero"
    ELSE IF c.MaxSize = 0 THEN "queue max size must be greater than zero"
    ELSE IF c.QueueRef = Nil THEN "queue reference cannot be nil"
    ELSE ""

RECURSIVE QueueConfigsValidate(_, _, _)
\* QueueConfigs.Validate from config i on, seen being the names met so far
QueueConfigsValidate(cs, i, seen) ==
    IF i > Len(cs) THEN ""
    ELSE IF cs[i].SchedulerName \in seen
    THEN "duplicate config for scheduler " \o Quoted(cs[i].SchedulerName)
    ELSE IF QueueConfigValidate(cs[i]) # ""
    THEN "invalid config for scheduler " \o Quoted(cs[i].SchedulerName)
            \o ": " \o QueueConfigValidate(cs[i])
    ELSE QueueConfigsValidate(cs, i + 1, seen \cup { cs[i].SchedulerName })

RECURSIVE AddPushHandlers(_, _, _, _)
\* QueueConfigs.AddPushHandler: the handler is appended on the queue of each
\* config in turn
AddPushHandlers(hs, cs, i, handler) ==
    IF i > Len(cs) THEN hs
    ELSE AddPushHandlers([hs EXCEPT ![cs[i].QueueRef] = Append(@, handler)],
                         cs, i + 1, handler)

\* NewQueueIterator: the wrapped error and no iterator, or the iterator with
\* Resume registered on every queue
NewQueueIterator(cs, hs) ==
    LET err == QueueConfigsValidate(cs, 1, {}) IN
    IF err # ""
    THEN [done |-> TRUE, it |-> FALSE, verr |-> err,
          err |-> "invalid queue configuration: " \o err, handlers |-> hs]
    ELSE [done |-> TRUE, it |-> TRUE, verr |-> "", err |-> "",
          handlers |-> AddPushHandlers(hs, cs, 1, "Resume")]

\* queues fresh from NewPlacementRequestQueue and a list of configs
InitValidate ==
    /\ queues = [q \in QueueIds |-> << >>]
    /\ pushHandlers = [q \in QueueIds |-> << >>]
    /\ resume = 0
    /\ InitIterator({"Uniform"})
    /\ InitHarness
    /\ InitQueueHarness
    /\ asBindings = << >>
    /\ asResult = Unassessed
    /\ InitController
    /\ fnIn \in SeqsUpTo(ConfigInputs, MaxQueues - 1)
    /\ fnOut = [done |-> FALSE, it |-> FALSE, verr |-> "", err |-> ""]

\* the call NewQueueIterator(configs)
CallNewQueueIterator ==
    /\ ~fnOut.done
    /\ LET r == NewQueueIterator(fnIn, pushHandlers) IN
       /\ fnOut' = [done |-> r.done, it |-> r.it, verr |-> r.verr, err |-> r.err]
       /\ pushHandlers' = r.handlers
    /\ UNCHANGED << queues, resume, cancelled, itpc, itp, reader, nextClosed,
                    todo, lastRecv, pending, dropped, pqvars, asBindings,
                    asResult, fnIn, ctlvars >>

NextValidate == CallNewQueueIterator

SpecValidate == InitValidate /\ [][NextValidate]_vars

\* two configs share a schedulerName, or one has an empty schedulerName, a
\* zero weight, a zero maxSize or no queue
InvalidConfigs(cs) ==
    \/ \E i, j \in 1..Len(cs) : i # j /\ cs[i].SchedulerName = cs[j].SchedulerName
    \/ \E i \in 1..Len(cs) :
          \/ cs[i].SchedulerName = ""
          \/ cs[i].Weight = 0
          \/ cs[i].MaxSize = 0
          \/ cs[i].QueueRef = Nil

\* C19: QueueConfigs.Validate returns an error exactly when two configs share
\* a schedulerName or some config has an empty schedulerName, weight 0,
\* maxSize 0 or a nil queueRef. NewQueueIterator then returns that error
\* wrapped, with no iterator and no push handler on any queue; otherwise it
\* returns the iterator with Resume registered once per config.
C19_ValidateConfigs ==
    fnOut.done =>
        /\ fnOut.verr # "" <=> InvalidConfigs(fnIn)
        /\ fnOut.verr # "" =>
              /\ fnOut.err = "invalid queue configuration: " \o fnOut.verr
              /\ ~fnOut.it
              /\ \A q \in QueueIds : pushHandlers[q] = << >>
        /\ fnOut.verr = "" =>
              /\ fnOut.err = ""
              /\ fnOut.it
              /\ \A q \in QueueIds :
                    /\ Len(pushHandlers[q]) =
                          Cardinality({ i \in 1..Len(fnIn) : fnIn[i].QueueRef = q })
                    /\ \A k \in 1..Len(pushHandlers[q]) : pushHandlers[q][k] = "Resume"

\* a valid config followed by one without max size: the constructor has
\* returned the error and the queue of the first config has no handler
C19_Witness ==
    /\ fnOut.done
    /\ Len(fnIn) = 2
    /\ QueueConfigValidate(fnIn[1]) = ""
    /\ fnIn[2] = [SchedulerName |-> "s2", Weight |-> 1, MaxSize |-> 0, QueueRef |-> 2]
    /\ fnOut.err = "invalid queue configuration: invalid config for scheduler "
                      \o "\"s2\": queue max size must be greater than zero"
    /\ pushHandlers[fnIn[1].QueueRef] = << >>

\* C20: once a send on Next has lost to the cancellation (the request in
\* hand was dropped), Run pops no further request: no queue gets shorter.
C20_NoPopAfterLostSend ==
    [][dropped => \A q \in QueueIds : Len(queues'[q]) >= Len(queues[q])]_vars

\* C21: the dispatcher never calls ScheduleOne with a nil request, also
\* after the iterator has closed Next on cancellation.
C21_NoNilDispatch == ~(ctlpc = "schedule" /\ ctlpr = Nil)

\* C22: whenever Run is blocked in its wait select with no resume signal
\* pending, every queue is empty: a Push that lands after the reader has
\* passed its queue leaves a signal behind.
C22_NoLostWakeup ==
    (itpc = "wait" /\ resume = 0) => \A q \in QueueIds : QLen(q) = 0

\* Run waits with nothing pending after it has delivered a request
C22_Witness ==
    /\ itpc = "wait"
    /\ resume = 0
    /\ lastRecv # Nil
    /\ \A q \in QueueIds : QLen(q) = 0

\* C23 as stated: the resume channel holds at most one pending signal.
C23_SingleSlot == resume <= 1

\* C23 amended: the resume channel holds at most ResumeCap = 2 pending
\* signals, whatever the number of Pushes made while Run is busy; a wake-up
\* takes one signal, so a burst of Pushes wakes Run at most twice.
C23_AtMostCapSignals == resume \in 0..ResumeCap

\* Run is blocked in its wait select with two signals pending
C23_Witness ==
    /\ itpc = "wait"
    /\ resume = ResumeCap
    /\ ~cancelled

\* ---------------------------------------------------------------------
\* Requests deleted while they wait in a queue
\* ---------------------------------------------------------------------

\* the requests the scheduler creates and may give up on: routed, valid,
\* one or two bindings
Deletable == { 1, 2 }

\* add events for requests that are still in the API server
AddEventLive == Enqueue({ pr \in Deletable : store[pr].state # "deleted" })

\* BindPlugin.Bind gives up on a request and deletes it: the object leaves
\* the API server, the pointer pushed onto the queue is not touched
DeletePR ==
    \E pr \in Deletable :
        /\ obj[pr].exists
        /\ store[pr].state = "live"
        /\ schedCalls[pr] = 0
        /\ store' = [store EXCEPT ![pr].state = "deleted"]
        /\ UNCHANGED << queues, pushHandlers, resume, cancelled, itpc, itp,
                        reader, nextClosed, todo, lastRecv, pending, dropped,
                        pqvars, asvars, obj, nadds, ctlpc, ctlpr, schedCalls,
                        schedErr, bindCalls, updCalls >>

NextCtlDelete ==
    \/ AddEventLive
    \/ DeletePR
    \/ RunLive
    \/ ControllerRecv
    \/ ScheduleOne

SpecCtlDelete == InitCtl /\ [][NextCtlDelete]_vars

\* C24: once a request has been deleted from the API server, no Bind request
\* is issued for any of its bindings.
C24_NoBindOnceDeleted ==
    [][\A pr \in PRs :
          store[pr].state = "deleted" => bindCalls'[pr] = bindCalls[pr]]_vars

\* a step of ScheduleOne on a request that passes the skip test
DispatchStep ==
    /\ ctlpc = "schedule"
    /\ ctlpr # Nil
    /\ schedCalls'[ctlpr] = schedCalls[ctlpr] + 1
    /\ ~Skipped(obj[ctlpr])

\* C25 as stated: every ScheduleOne call that is not skipped makes exactly
\* one status-update attempt.
C25_OneUpdatePerDispatch ==
    [][DispatchStep => updCalls'[ctlpr] = updCalls[ctlpr] + 1]_vars

\* C25 amended: a ScheduleOne call that is not skipped either fails to
\* refresh the node snapshot, and then returns that error with no status
\* update, no Bind and nothing changed, or makes exactly one status-update
\* attempt and at most one Bind per binding; it returns nil exactly when the
\* API server took the update, and a wrapped or raw update error with the
\* store unchanged otherwise. In both cases Run goes back to its receive and
\* no other request is touched.
C25_AtMostOneUpdate ==
    [][DispatchStep =>
        LET pr == ctlpr IN
        /\ ctlpc' = "recv"
        /\ \A other \in PRs \ { pr } :
              /\ updCalls'[other] = updCalls[other]
              /\ bindCalls'[other] = bindCalls[other]
              /\ obj'[other] = obj[other]
        /\ \/ /\ schedErr' = "unable to update a snapshot"
              /\ updCalls' = updCalls
              /\ bindCalls' = bindCalls
              /\ store' = store
              /\ obj' = obj
           \/ /\ updCalls'[pr] = updCalls[pr] + 1
              /\ \A i \in 1..Len(bindCalls[pr]) :
                    bindCalls'[pr][i] \in { bindCalls[pr][i], bindCalls[pr][i] + 1 }
              /\ schedErr' = "" <=> store'[pr].Status = obj'[pr].Status
              /\ schedErr' # "" =>
                    /\ store' = store
                    /\ schedErr' \in { "update refused",
                           "failed to update placement request status: update refused" }]_vars

\* the update of one request was refused, the error came back, and Run has
\* received the next request
C25_Witness ==
    /\ ctlpc = "schedule"
    /\ schedErr = "failed to update placement request status: update refused"
    /\ \E pr \in PRs \ { ctlpr } :
          /\ updCalls[pr] = 1
          /\ store[pr].Status = EmptyStatus
          /\ obj[pr].Status.Result # PlacementRequestResultUnknown

\* ---------------------------------------------------------------------
\* The binding loop of ScheduleOne on its own
\* ---------------------------------------------------------------------

\* spec.bindings of three pods
ThreeBindings ==
    << Binding("pa", "ua", "n1"), Binding("pb", "ub", "n2"),
       Binding("pc", "uc", "n1") >>

\* the spec.bindings the loop is run on: one pod, two pods, the same pod
\* twice, three pods
BindingLists ==
    { PRSpec[1].Bindings, PRSpec[2].Bindings, PRSpec[8].Bindings, ThreeBindings }

\* a request, the environment's answers for each of its bindings, and the
\* number of validation plugins enabled for its scheduler
LoopInputs ==
    UNION { [bs : { bs }, ins : [1..Len(bs) -> BindingInputs], nplugins : 0..1] :
            bs \in BindingLists }

InitBind ==
    /\ InitAtRest
    /\ fnIn \in LoopInputs
    /\ fnOut = [done |-> FALSE, Bindings |-> << >>, binds |-> << >>,
                Result |-> PlacementRequestResultUnknown]

\* the binding loop on a request without status bindings, then AssessResult
RunBindingLoop ==
    /\ ~fnOut.done
    /\ LET out == BindingLoop(fnIn.bs, fnIn.ins, 1, fnIn.nplugins, << >>,
                      Zeros(Len(fnIn.bs)))
       IN  fnOut' = [done |-> TRUE, Bindings |-> out.Bindings,
                     binds |-> out.binds,
                     Result |-> AssessResult(ResultsOf(out.Bindings)).Result]
    /\ UNCHANGED << queues, pushHandlers, resume, cancelled, itpc, itp, reader,
                    nextClosed, todo, lastRecv, pending, dropped, pqvars,
                    asBindings, asResult, fnIn, ctlvars >>

NextBind == RunBindingLoop

SpecBind == InitBind /\ [][NextBind]_vars

\* the lister holds the pod of binding k without a nodeName
Unbound(k) == fnIn.ins[k].pod = ""

\* validation fails on binding k: a plugin is enabled and the node-info is
\* missing or a plugin rejects
Stops(k) ==
    /\ Unbound(k)
    /\ fnIn.nplugins > 0
    /\ ~fnIn.ins[k].nodeInfo \/ fnIn.ins[k].pluginErr

\* no validation failed before binding k
Reached(k) == \A j \in 1..(k - 1) : ~Stops(j)

\* a later binding that is reached names the same pod
Overwritten(k) ==
    \E m \in (k + 1)..Len(fnIn.bs) :
        Reached(m) /\ fnIn.bs[m].PodUID = fnIn.bs[k].PodUID

\* status.bindings has an entry for spec binding k
Recorded(k) ==
    \E j \in 1..Len(fnOut.Bindings) : fnOut.Bindings[j].Binding = fnIn.bs[k]

\* status.bindings has an entry for spec binding k with this result
HasEntry(k, result, reason) ==
    \E j \in 1..Len(fnOut.Bindings) :
        /\ fnOut.Bindings[j].Binding = fnIn.bs[k]
        /\ fnOut.Bindings[j].Result = result
        /\ fnOut.Bindings[j].Reason = reason

\* the loop run on the bindings before k alone
Before(k) ==
    BindingLoop(SubSeq(fnIn.bs, 1, k - 1), SubSeq(fnIn.ins, 1, k - 1), 1,
                fnIn.nplugins, << >>, Zeros(k - 1))

PreBound(k) == fnIn.ins[k].pod \in { "n1", "n2" }

\* C27: for a binding whose pod already has a nodeName the loop issues no
\* Bind; it records success "Binding unneeded" when that node is the
\* requested one and failure "Pod already bound" otherwise (the entry stands
\* unless a later binding names the same pod), and it goes on to the next
\* binding, which gets its own entry.
C27_PreBoundPod ==
    fnOut.done =>
        \A k \in 1..Len(fnIn.bs) :
            (Reached(k) /\ PreBound(k)) =>
                /\ fnOut.binds[k] = 0
                /\ ~Overwritten(k) =>
                      IF fnIn.ins[k].pod = fnIn.bs[k].NodeName
                      THEN HasEntry(k, PlacementRequestResultSuccess, "Binding unneeded")
                      ELSE HasEntry(k, PlacementRequestResultFailure, "Pod already bound")
                /\ (k < Len(fnIn.bs) /\ ~Overwritten(k + 1)) => Recorded(k + 1)

\* two pods: the first sits on the requested node, the second on another
\* one; both get an entry and no Bind is issued
C27_Witness ==
    /\ fnOut.done
    /\ fnIn.bs = PRSpec[2].Bindings
    /\ fnIn.ins[1].pod = "n1"
    /\ fnIn.ins[2].pod = "n1"
    /\ fnOut.binds = << 0, 0 >>
    /\ fnOut.Bindings[1].Reason = "Binding unneeded"
    /\ fnOut.Bindings[1].Message = "Pod was already bound"
    /\ fnOut.Bindings[2].Reason = "Pod already bound"
    /\ fnOut.Result = PlacementRequestResultPartialSuccess

\* the status entries come in the order in which spec.bindings first names
\* their pods
InSpecOrder ==
    \A a, b \in 1..Len(fnOut.Bindings) :
        a < b =>
            \E i \in 1..Len(fnIn.bs) :
                /\ fnIn.bs[i].PodUID = fnOut.Bindings[a].Binding.PodUID
                /\ \A j \in 1..i : fnIn.bs[j].PodUID # fnOut.Bindings[b].Binding.PodUID

\* C28: the bindings are attempted in spec order; a pod the lister does not
\* find gets failure "API error" and no Bind, a Bind the API server refuses
\* gets failure "API denied binding", and in both cases every later binding
\* that no validation failure cuts off is attempted and gets its entry.
C28_FailuresDoNotStop ==
    fnOut.done =>
        /\ InSpecOrder
        /\ \A k \in 1..Len(fnIn.bs) :
            /\ (Reached(k) /\ fnIn.ins[k].pod = "notfound") =>
                  /\ fnOut.binds[k] = 0
                  /\ ~Overwritten(k) =>
                        HasEntry(k, PlacementRequestResultFailure, "API error")
                  /\ \A m \in (k + 1)..Len(fnIn.bs) :
                        (Reached(m) /\ ~Overwritten(m)) => Recorded(m)
            /\ (Reached(k) /\ Unbound(k) /\ ~Stops(k) /\ fnIn.ins[k].bindErr) =>
                  /\ fnOut.binds[k] = 1
                  /\ ~Overwritten(k) =>
                        HasEntry(k, PlacementRequestResultFailure, "API denied binding")
                  /\ \A m \in (k + 1)..Len(fnIn.bs) :
                        (Reached(m) /\ ~Overwritten(m)) => Recorded(m)

\* three pods: the first is not found, the Bind of the second is refused,
\* the third is bound
C28_Witness ==
    /\ fnOut.done
    /\ fnIn.bs = ThreeBindings
    /\ fnIn.ins[1].pod = "notfound"
    /\ fnOut.binds = << 0, 1, 1 >>
    /\ [i \in 1..3 |-> fnOut.Bindings[i].Reason] =
          << "API error", "API denied binding", "Binding successful" >>
    /\ fnOut.Result = PlacementRequestResultPartialSuccess

\* the pod of spec binding k sits on the requested node: it was there
\* already, or this run issued the Bind and the API server took it
BoundAsRequested(k) ==
    \/ fnIn.ins[k].pod = fnIn.bs[k].NodeName
    \/ fnOut.binds[k] = 1 /\ ~fnIn.ins[k].bindErr

\* C29: when the result assessed from status.bindings is Success, the pod
\* of every spec binding was bound to the requested node by this run or was
\* bound to it already, also when two spec bindings name the same pod.
C29_SuccessMeansAllBound ==
    (fnOut.done /\ fnOut.Result = PlacementRequestResultSuccess) =>
        \A k \in 1..Len(fnIn.bs) : BoundAsRequested(k)

\* C30: when the snapshot has no node-info for the target node of a binding
\* whose pod is unbound, the binding is recorded as failed with reason
\* "validation failed", no Bind is issued for it and no later binding is
\* processed, with or without validation plugins.
C30_MissingNodeInfoStops ==
    fnOut.done =>
        \A k \in 1..Len(fnIn.bs) :
            (Reached(k) /\ Unbound(k) /\ ~fnIn.ins[k].nodeInfo) =>
                /\ HasEntry(k, PlacementRequestResultFailure, "validation failed")
                /\ \A m \in k..Len(fnIn.bs) : fnOut.binds[m] = 0
                /\ \A m \in (k + 1)..Len(fnIn.bs) : ~Recorded(m)


Admitted(pr) ==
    /\ PRSpec[pr].SchedulerName # ""
    /\ \E q \in QueueIds :
          /\ Configs[q].SchedulerName = PRSpec[pr].SchedulerName
          /\ Len(PRSpec[pr].Bindings) <= Configs[q].MaxSize

\* the step issues no status update and leaves every status as it is
NoStatusWrite ==
    /\ updCalls' = updCalls
    /\ \A p \in PRs : store'[p].Status = store[p].Status
    /\ \A p \in PRs : obj[p].exists => obj'[p].Status = obj[p].Status

ReadInputs ==
    UNION { [Weights : [1..n -> 1..2],
             Items : [1..n -> { << >>, << 1 >>, << 3 >> }]] : n \in 1..MaxQueues }

\* the copy of u.configs Read works on: the queue and the weight of each
CopyConfigs(ws) == [i \in 1..Len(ws) |-> [q |-> i, Weight |-> ws[i]]]

ConfigWeights(cfgs) == [i \in 1..Len(cfgs) |-> cfgs[i].Weight]

\* the loop of UniformReader.Read with n turns left: every outcome the
\* random selections allow, with the Pops made in the order they were made
RECURSIVE UniformReadLoop(_, _, _, _)
UniformReadLoop(items, cfgs, n, popped) ==
    IF n = 0
    THEN { [pr |-> Nil, Items |-> items, popped |-> popped] }
    ELSE UNION {
           LET qidx == WalkWeights(ConfigWeights(cfgs), selected, 1, 0) IN
           IF qidx = 0
           THEN { [pr |-> -1, Items |-> items, popped |-> popped] }
           ELSE LET q == cfgs[qidx].q
                    pr == PopResult(items[q])
                    rest == [items EXCEPT ![q] = PopRest(@)]
                    pops == Append(popped, [q |-> q, pr |-> pr])
                IN  IF pr # Nil
                    THEN { [pr |-> pr, Items |-> rest, popped |-> pops] }
                    ELSE UniformReadLoop(rest, SlicesDelete(cfgs, qidx),
                                         n - 1, pops)
           : selected \in 1..SumWeights(ConfigWeights(cfgs)) }

InitUniformRead ==
    /\ InitAtRest
    /\ fnIn \in ReadInputs
    /\ fnOut = << >>

\* u.Read(ctx)
CallUniformRead ==
    /\ fnOut = << >>
    /\ \E out \in UniformReadLoop(fnIn.Items, CopyConfigs(fnIn.Weights),
                                   Len(fnIn.Weights), << >>) :
          fnOut' = out
    /\ UNCHANGED << queues, pushHandlers, resume, cancelled, itpc, itp, reader,
                    nextClosed, todo, lastRecv, pending, dropped, pqvars,
                    asBindings, asResult, fnIn, ctlvars >>

NextUniformRead == CallUniformRead

SpecUniformRead == InitUniformRead /\ [][NextUniformRead]_vars

\* C33: a Read call pops no queue twice; every queue it popped before the
\* last one yielded nil; when it returns a request, that is what the last
\* queue it popped yielded, taken off that queue; it returns nil only when
\* it has popped each configured queue once and each yielded nil.  It
\* never panics and leaves the queues it did not pop as they were.
C33_UniformRead ==
    fnOut # << >> =>
        LET P == fnOut.popped
            n == Len(fnIn.Weights)
        IN  /\ fnOut.pr # -1
            /\ \A i, j \in 1..Len(P) : P[i].q = P[j].q => i = j
            /\ \A i \in 1..Len(P) : P[i].pr = PopResult(fnIn.Items[P[i].q])
            /\ \A i \in 1..Len(P) - 1 : P[i].pr = Nil
            /\ Len(P) >= 1
            /\ fnOut.pr = P[Len(P)].pr
            /\ fnOut.pr = Nil =>
                   /\ Len(P) = n
                   /\ { P[i].q : i \in 1..Len(P) } = 1..n
            /\ \A q \in 1..n :
                   fnOut.Items[q] =
                       IF q = P[Len(P)].q THEN PopRest(fnIn.Items[q])
                       ELSE fnIn.Items[q]

\* three queues: Read found two of them empty, then returned the request
\* of the third
C33_Witness ==
    /\ fnOut # << >>
    /\ Len(fnIn.Weights) = 3
    /\ Len(fnOut.popped) = 3
    /\ fnOut.pr = 3
    /\ fnOut.popped[1].pr = Nil
    /\ fnOut.popped[2].pr = Nil
    /\ fnOut.Items = << << >>, << >>, << >> >>

(***************************************************************************)
(* RoundRobinReader.Read as one call, recursion included, from any state   *)
(* of the reader and of its queues.                                        *)
(***************************************************************************)
\* the requests the queues of a reader hold: one, one, two and no bindings
ReadPRs == { 1, 3, 2, 7 }

\* the heaps of at most two different requests
SmallHeaps ==
    { << >> } \cup { heapPush(<< >>, a) : a \in ReadPRs }
       \cup { heapPush(heapPush(<< >>, ab[1]), ab[2]) :
                ab \in { x \in ReadPRs \X ReadPRs : x[1] # x[2] } }

\* the quotas the readers are built with: the ones of TestRoundRobinReader_Read
\* (1 for three queues, 1 or 2 for fewer) and the ones NewRoundRobinReader
\* computes for the weights 1 and 2
ReaderQuotas ==
    { << 1, 1, 1 >> } \cup [1..2 -> 1..2] \cup [1..1 -> 1..2]
       \cup { [i \in 1..2 |-> NewRoundRobinReader(<< 1, 2 >>).configs[i].MaximumBindings] }

\* the values BindingsRead takes for a quota: none read, one binding short
\* of the quota, the quota, one binding over it
CounterValues(m) == { 0, m - 1, m, m + 1 }

\* the counters of a reader with the quotas ms
CounterLists(ms) ==
    { br \in [1..Len(ms) -> UNION { CounterValues(ms[i]) : i \in 1..Len(ms) }] :
        \A i \in 1..Len(ms) :
            /\ br[i] \in CounterValues(ms[i])
            /\ Len(ms) = 3 => br[i] <= ms[i] }

\* a reader at any point of its life, over queues of any content
ReaderStates ==
    UNION { [configs : { [i \in 1..Len(ms) |->
                            [MaximumBindings |-> ms[i], BindingsRead |-> br[i]]] :
                         br \in CounterLists(ms) },
             Items : [1..Len(ms) -> SmallHeaps]] : ms \in ReaderQuotas }

\* fault: an empty() that looks at the first queue only
emptyFirstOnly(items) == Len(items[1]) = 0

\* RoundRobinReader.empty
empty(items) == \A i \in 1..Len(items) : Len(items[i]) = 0

\* RoundRobinReader.Read.  log holds one entry per Pop of the call: the queue,
\* what it yielded, the counters before next() (pre), whether reset() ran,
\* the counters at the Pop (cs) and after it (post).
RECURSIVE RoundRobinRead(_, _, _)
RoundRobinRead(cs, items, log) ==
    IF empty(items)
    THEN [pr |-> Nil, panic |-> FALSE, configs |-> cs, Items |-> items, log |-> log]
    ELSE LET first == NextConfig(cs)
             cs1 == IF first = 0 THEN ResetConfigs(cs) ELSE cs
             index == NextConfig(cs1)
         IN  IF index = 0
             THEN [pr |-> Nil, panic |-> TRUE, configs |-> cs1, Items |-> items,
                   log |-> log]
             ELSE LET pr == PopResult(items[index])
                      rest == [items EXCEPT ![index] = PopRest(@)]
                      post == IF pr # Nil
                              THEN [cs1 EXCEPT ![index].BindingsRead =
                                       Charge(@, Len(PRSpec[pr].Bindings))]
                              ELSE [cs1 EXCEPT ![index].BindingsRead =
                                       cs1[index].MaximumBindings]
                      entry == [q |-> index, pr |-> pr, pre |-> cs,
                                reset |-> first = 0, cs |-> cs1, post |-> post]
                  IN  IF pr # Nil
                      THEN [pr |-> pr, panic |-> FALSE, configs |-> post,
                            Items |-> rest, log |-> Append(log, entry)]
                      ELSE RoundRobinRead(post, rest, Append(log, entry))

\* no Read call was made yet
NoCall == [pr |-> Nil, panic |-> FALSE, log |-> << >>, made |-> FALSE]

InitRoundRobin ==
    /\ InitAtRest
    /\ fnIn \in ReaderStates
    /\ fnOut = [configs |-> fnIn.configs, Items |-> fnIn.Items,
                before |-> fnIn, emitted |-> << >>, last |-> NoCall]

\* r.Read(ctx): before is the reader and the queues as the call found them,
\* emitted the queues of the requests returned so far
CallRoundRobinRead ==
    /\ ~fnOut.last.panic
    /\ ~(fnOut.last.made /\ fnOut.last.pr = Nil)
    /\ LET out == RoundRobinRead(fnOut.configs, fnOut.Items, << >>) IN
       fnOut' = [configs |-> out.configs, Items |-> out.Items,
                 before |-> [configs |-> fnOut.configs, Items |-> fnOut.Items],
                 emitted |-> IF out.pr = Nil THEN fnOut.emitted
                             ELSE Append(fnOut.emitted, out.log[Len(out.log)].q),
                 last |-> [pr |-> out.pr, panic |-> out.panic, log |-> out.log,
                           made |-> TRUE]]
    /\ UNCHANGED << queues, pushHandlers, resume, cancelled, itpc, itp, reader,
                    nextClosed, todo, lastRecv, pending, dropped, pqvars,
                    asBindings, asResult, fnIn, ctlvars >>

NextRoundRobin == CallRoundRobinRead

SpecRoundRobin == InitRoundRobin /\ [][NextRoundRobin]_vars

\* the counter is below the quota
BelowQuota(c) == c.BindingsRead < c.MaximumBindings

\* the queues a Read call popped, in the order it popped them
Pops == fnOut.last.log

\* C34: every Pop of a Read call is made on the first queue in declared
\* order whose BindingsRead is below its MaximumBindings, a counter above
\* the quota counting as used up.  A request that is popped ends the call,
\* is what Read returns and adds its number of bindings to the counter of
\* its queue; a nil Pop sets the counter of the queue to its quota and
\* Read goes on to another Pop from the counters so changed.
C34_ReadStep ==
    fnOut.last.made =>
        \A k \in 1..Len(Pops) :
            LET e == Pops[k] IN
            /\ BelowQuota(e.cs[e.q])
            /\ \A j \in 1..(e.q - 1) : ~BelowQuota(e.cs[j])
            /\ e.pr = PopResult(fnOut.before.Items[e.q])
            /\ IF e.pr # Nil
               THEN /\ k = Len(Pops)
                    /\ fnOut.last.pr = e.pr
                    /\ e.post = [e.cs EXCEPT ![e.q].BindingsRead =
                                    @ + Len(PRSpec[e.pr].Bindings)]
                    /\ fnOut.configs = e.post
               ELSE /\ e.post = [e.cs EXCEPT ![e.q].BindingsRead =
                                    e.cs[e.q].MaximumBindings]
                    /\ k < Len(Pops)
                    /\ Pops[k + 1].pre = e.post

\* the first queue is over its quota and the second is empty: Read found
\* the second empty and returned the two bindings of the first
C34_Witness ==
    /\ fnOut.last.made
    /\ Len(fnOut.before.configs) = 2
    /\ fnOut.before.configs[1].BindingsRead > fnOut.before.configs[1].MaximumBindings
    /\ BelowQuota(fnOut.before.configs[2])
    /\ Len(Pops) = 2
    /\ Pops[1].q = 2
    /\ Pops[1].pr = Nil
    /\ Pops[2].q = 1
    /\ fnOut.last.pr = 2
    /\ Pops[1].post[2].BindingsRead = Pops[1].cs[2].MaximumBindings
    /\ fnOut.configs[1].BindingsRead = 2

\* the first non-empty queue in declared order
FirstNonEmpty(items) ==
    CHOOSE i \in 1..Len(items) :
        /\ Len(items[i]) > 0
        /\ \A j \in 1..(i - 1) : Len(items[j]) = 0

\* three queues with a quota of 1, each holding two requests of one binding
ThreeByTwo ==
    [configs |-> [i \in 1..3 |-> [MaximumBindings |-> 1, BindingsRead |-> 0]],
     Items |-> [i \in 1..3 |-> heapPush(heapPush(<< >>, 1), 3)]]

\* C35: Read resets the counters exactly when it finds no queue below its
\* quota while some queue is non-empty.  The reset sets every BindingsRead
\* to 0 and the next Pop is on the first queue in declared order; the call
\* then returns the request of the first non-empty queue, with the counter
\* of every queue before it at its quota, the counter of that queue at the
\* number of bindings returned and the counter of every queue after it at
\* 0.  No call resets twice.  Quotas of 1 over three queues holding two
\* requests each yield the queues 1, 2, 3, 1, 2, 3.
C35_ResetStartsCycle ==
    fnOut.last.made =>
        /\ \A k \in 1..Len(Pops) :
              LET e == Pops[k] IN
              /\ e.reset <=> (\A i \in 1..Len(e.pre) : ~BelowQuota(e.pre[i]))
              /\ e.reset =>
                    /\ \A i \in 1..Len(e.cs) :
                          /\ e.cs[i].BindingsRead = 0
                          /\ e.cs[i].MaximumBindings = e.pre[i].MaximumBindings
                    /\ e.q = 1
                    /\ \A j \in 1..Len(Pops) : Pops[j].reset => j = k
        /\ ((\A i \in 1..Len(fnOut.before.configs) :
                  ~BelowQuota(fnOut.before.configs[i]))
              /\ ~empty(fnOut.before.Items)) =>
              LET first == FirstNonEmpty(fnOut.before.Items) IN
              /\ ~fnOut.last.panic
              /\ Len(Pops) = first
              /\ Pops[1].reset
              /\ \A k \in 1..first : Pops[k].q = k
              /\ fnOut.last.pr = PopResult(fnOut.before.Items[first])
              /\ \A i \in 1..Len(fnOut.configs) :
                    fnOut.configs[i].BindingsRead =
                        IF i < first THEN fnOut.configs[i].MaximumBindings
                        ELSE IF i = first
                        THEN Len(PRSpec[fnOut.last.pr].Bindings)
                        ELSE 0
        /\ fnIn = ThreeByTwo =>
              fnOut.emitted = SubSeq(<< 1, 2, 3, 1, 2, 3 >>, 1, Len(fnOut.emitted))

\* three queues with a quota of 1 gave one request each: the fourth Read
\* found every quota used up, reset the counters and returned the second
\* request of the first queue
C35_Witness ==
    /\ fnIn = ThreeByTwo
    /\ fnOut.emitted = << 1, 2, 3, 1 >>
    /\ fnOut.last.made
    /\ \A i \in 1..3 : ~BelowQuota(fnOut.before.configs[i])
    /\ Len(Pops) = 1
    /\ Pops[1].reset
    /\ Pops[1].q = 1
    /\ fnOut.configs[2].BindingsRead = 0

RECURSIVE TotalLen(_)
TotalLen(items) ==
    IF items = << >> THEN 0 ELSE Len(Head(items)) + TotalLen(Tail(items))

\* C36: with every quota at least 1 (as NewRoundRobinReader computes them
\* for weights of at least 1) a Read call returns without the panic "no
\* queues to read from but not all are empty", after less than two Pops per
\* queue; it returns nil exactly when every queue was empty, and otherwise
\* a request that was in a queue, which it takes off the queues.
C36_ReadTerminates ==
    fnOut.last.made =>
        /\ \A i \in 1..Len(fnOut.before.configs) :
              fnOut.before.configs[i].MaximumBindings >= 1
        /\ ~fnOut.last.panic
        /\ Len(Pops) < 2 * Len(fnOut.before.configs)
        /\ fnOut.last.pr = Nil <=> TotalLen(fnOut.before.Items) = 0
        /\ fnOut.last.pr = Nil => (Pops = << >> /\ fnOut.Items = fnOut.before.Items)
        /\ fnOut.last.pr # Nil =>
              /\ TotalLen(fnOut.Items) = TotalLen(fnOut.before.Items) - 1
              /\ \E i \in 1..Len(fnOut.Items) :
                    /\ fnOut.last.pr = PopResult(fnOut.before.Items[i])
                    /\ fnOut.Items =
                          [fnOut.before.Items EXCEPT ![i] = PopRest(@)]

\* the longest recursion over two queues: the first queue is found empty,
\* the counters are reset, the first queue is found empty again and the
\* request of the second is returned
C36_Witness ==
    /\ fnOut.last.made
    /\ Len(fnOut.before.configs) = 2
    /\ fnOut.before.configs[1].MaximumBindings = MinimumBindings
    /\ Len(Pops) = 3
    /\ Pops[1].pr = Nil
    /\ Pops[2].reset
    /\ Pops[2].pr = Nil
    /\ fnOut.last.pr # Nil
    /\ ~fnOut.last.panic

\* the call found the queue empty, after its reset if it made one
FoundEmpty(i) ==
    \E k \in 1..Len(Pops) :
        /\ Pops[k].q = i
        /\ Pops[k].pr = Nil
        /\ \A m \in (k + 1)..Len(Pops) : ~Pops[m].reset

\* the call reset the counters
DidReset == \E k \in 1..Len(Pops) : Pops[k].reset

\* C37: requests come out queue by queue in declared order.  When Read
\* returns a request of queue j, every queue before j either had used up
\* its quota before the call or was found empty by the call; so while a
\* queue is non-empty and below its quota, Read returns no request of a
\* later queue.  Between two resets the queues of the requests returned
\* never step back.
C37_QueueByQueue ==
    (fnOut.last.made /\ fnOut.last.pr # Nil) =>
        LET j == Pops[Len(Pops)].q IN
        /\ \A i \in 1..(j - 1) :
              /\ ~BelowQuota(Pops[Len(Pops)].cs[i])
              /\ \/ FoundEmpty(i)
                 \/ ~DidReset /\ ~BelowQuota(fnOut.before.configs[i])
        /\ \A i \in 1..Len(fnOut.before.configs) :
              (BelowQuota(fnOut.before.configs[i])
                 /\ Len(fnOut.before.Items[i]) > 0) => j <= i
        /\ (~DidReset /\ Len(fnOut.emitted) >= 2) =>
              fnOut.emitted[Len(fnOut.emitted) - 1] <= j

\* the first queue gave a request and reached its quota with another
\* request left in it; the next Read returned a request of the second queue
C37_Witness ==
    /\ fnOut.last.made
    /\ fnOut.emitted = << 1, 2 >>
    /\ ~DidReset
    /\ Len(fnOut.Items[1]) > 0
    /\ fnOut.before.configs[1].BindingsRead = fnOut.before.configs[1].MaximumBindings
    /\ fnIn.configs[1].BindingsRead = 0

(***************************************************************************)
(* The iterator with a RoundRobinReader, producers that push for ever and  *)
(* a consumer that keeps receiving.                                        *)
(***************************************************************************)
InitRoundRobinRun ==
    /\ InitQueues
    /\ InitIterator({"RoundRobin"})
    /\ InitHarness
    /\ InitQueueHarness
    /\ InitAssessHarness
    /\ InitController

\* the steps of Run with a RoundRobinReader while the context is live
RoundRobinRun ==
    \/ RunCheck
    \/ RoundRobinEmpty
    \/ RoundRobinPop
    \/ WaitResume

NextRoundRobinRun == RoundRobinRun \/ EndlessPush \/ ConsumerRecv

\* Run is a goroutine that keeps running while it has a step to make, and
\* the consumer takes what is sent on Next
FairRoundRobinRun ==
    /\ InitRoundRobinRun
    /\ [][NextRoundRobinRun]_vars
    /\ WF_vars(RoundRobinRun)
    /\ WF_vars(ConsumerRecv)

\* C38: with a RoundRobinReader and a consumer that keeps receiving, when
\* the queue of the second scheduler holds a request, a request of that
\* queue is eventually sent on Next, whatever the producers of the other
\* queue push.
C38_NoStarvation ==
    (QLen(2) > 0) ~> (itpc = "send" /\ itp \in QueuePRs(2))

(***************************************************************************)
(* The reader over the iterations of Run.                                  *)
(***************************************************************************)
\* C39: every outer iteration of Run that goes on to read does so with a
\* reader built anew from the configs, whose BindingsRead counters are all
\* 0; and once a reader has returned nil, Run makes no Read before it has
\* built the next one.
C39_FreshReaderPerPass ==
    [][/\ (itpc = "check" /\ itpc' = "read") =>
             /\ reader' = NewReader(reader.kind)
             /\ \A i \in QueueIds : reader'.BindingsRead[i] = 0
       /\ itpc = "wait" => (itpc' \in {"wait", "check"} /\ reader' = reader)
       /\ itpc' = "read" => itpc \in {"check", "read", "send"}
      ]_vars

\* a RoundRobinReader returned a request with bindings and later nil; Run
\* was resumed and is about to read with counters at 0
C39_Witness ==
    /\ itpc = "read"
    /\ reader = NewReader("RoundRobin")
    /\ lastRecv \in { 1, 2, 3 }
    /\ \E q \in QueueIds : QLen(q) > 0
    /\ ~cancelled

(***************************************************************************)
(* BindPlugin.Bind of the scheduler plugin, against the answers of the API *)
(* server.                                                                 *)
(***************************************************************************)
\* a Go error: << >> for nil, else the one-element tuple of its text
NoError == << >>

errorsNew(text) == << text >>

\* a nil *framework.Status, which the framework reads as Success
NilStatus == [Code |-> "Success", Message |-> ""]

\* framework.AsStatus(err): nil for a nil error
AsStatus(err) ==
    IF err = NoError THEN NilStatus ELSE [Code |-> "Error", Message |-> err[1]]

\* framework.NewStatus(framework.Success, message)
NewStatus(message) == [Code |-> "Success", Message |-> message]

\* how the polling ends: a Get that fails, the timeout with the result
\* still unknown, or a Get that shows a terminal result
PollEnds == { "get failed", "timed out" } \cup (Results \ { PlacementRequestResultUnknown })

\* the answers of the API server to one Bind call: whether the pod has a
\* UID, whether a request of its name exists, the errors of the Delete of
\* that request, of the Create and of the clean-up Delete, the end of the
\* polling and the status.message of the request
BindAnswers ==
    [uid : BOOLEAN, exists : BOOLEAN,
     deleteErr : { NoError, errorsNew("delete refused") },
     createErr : { NoError, errorsNew("create refused") },
     poll : PollEnds,
     message : { "", "Some bindings failed" },
     cleanupErr : { NoError, errorsNew("cleanup refused") }]

\* the error of wait.PollUntilContextCancel
PollErr(poll) ==
    IF poll = "get failed" THEN errorsNew("get refused")
    ELSE IF poll = "timed out" THEN errorsNew("context deadline exceeded")
    ELSE NoError

\* BindPlugin.Bind: the status it returns, whether it created the request
\* and the result it last observed
Bind(a) ==
    IF ~a.uid
    THEN [status |-> AsStatus(errorsNew("pod is missing its UID")),
          created |-> FALSE, observed |-> PlacementRequestResultUnknown]
    ELSE IF a.exists /\ a.deleteErr # NoError
    THEN [status |-> AsStatus(a.deleteErr), created |-> FALSE,
          observed |-> PlacementRequestResultUnknown]
    ELSE IF a.createErr # NoError
    THEN [status |-> AsStatus(a.createErr), created |-> FALSE,
          observed |-> PlacementRequestResultUnknown]
    ELSE IF PollErr(a.poll) # NoError
    THEN \* err = client.Delete(...); return framework.AsStatus(err)
         [status |-> AsStatus(a.cleanupErr), created |-> TRUE,
          observed |-> PlacementRequestResultUnknown]
    ELSE IF a.poll # PlacementRequestResultSuccess
    THEN [status |-> AsStatus(errorsNew(a.message)), created |-> TRUE,
          observed |-> a.poll]
    ELSE [status |-> NewStatus(a.message), created |-> TRUE, observed |-> a.poll]

InitBindPlugin ==
    /\ InitAtRest
    /\ fnIn \in BindAnswers
    /\ fnOut = << >>

\* p.Bind(ctx, state, pod, node)
CallBind ==
    /\ fnOut = << >>
    /\ fnOut' = Bind(fnIn)
    /\ UNCHANGED << queues, pushHandlers, resume, cancelled, itpc, itp, reader,
                    nextClosed, todo, lastRecv, pending, dropped, pqvars,
                    asBindings, asResult, fnIn, ctlvars >>

NextBindPlugin == CallBind

SpecBindPlugin == InitBindPlugin /\ [][NextBindPlugin]_vars

\* C40: Bind returns a success status only if it observed the request with
\* result Success; when the polling ends with an error or with the timeout
\* it returns a status that is not a success, whether or not the clean-up
\* Delete succeeds; a terminal result other than Success is returned as an
\* error carrying status.message.
C40_BindStatus ==
    fnOut # << >> =>
        /\ fnOut.status.Code = "Success" =>
              fnOut.observed = PlacementRequestResultSuccess
        /\ (fnOut.created /\ fnIn.poll \in { "get failed", "timed out" }) =>
              fnOut.status.Code # "Success"
        /\ (fnOut.created
              /\ fnIn.poll \in Results \ { PlacementRequestResultSuccess }) =>
              fnOut.status = [Code |-> "Error", Message |-> fnIn.message]

====
